---- MODULE Spec2Model ----
(***************************************************************************)
(* A model of CorpusInterface/datatypes.py: the point/vector link between  *)
(* classes, the point/vector arithmetic, and the converter registry of     *)
(* Pitch with the conversion of pitches and intervals through it.          *)
(*                                                                         *)
(* Classes are strings.  A value is a record [cls, value, is_class]; an    *)
(* operation that raises yields a record [err |-> <exception name>].       *)
(***************************************************************************)
EXTENDS Integers, Sequences, FiniteSets, TLC

VARIABLES
    vector_class,   \* Point._vector_class, the attribute each point class sets itself
    point_class,    \* Vector._point_class, the attribute each vector class sets itself
    converters,     \* Pitch._converters_: from_type -> to_type -> list of functions
    call,           \* the last operation: its name, its arguments and what it returned or raised
    pre,            \* vector_class, point_class and converters as they were before that operation
    ncalls,         \* how many link or register calls were made
    defaults        \* whether every link call so far left both overwrite flags unspecified
                    \* and every register call left extend_implicit_converters True

vars == <<vector_class, point_class, converters, call, pre, ncalls, defaults>>

None == "None"

(***************************************************************************)
(* The classes.  Point, Pitch, Time, Vector, Interval and Duration are the *)
(* base classes of datatypes.py; the others are classes derived from them, *)
(* as the tests and midi.py derive them.                                   *)
(***************************************************************************)
PitchTypes == {"PitchA", "PitchB", "PitchC", "PitchD"}

IntervalTypes == {"PitchAInterval", "PitchBInterval", "PitchCInterval", "PitchDInterval"}

\* NewNote derives from PitchA as MIDINote derives from EnharmonicPitch;
\* NewNoteInterval derives from PitchAInterval.
PointTypes == PitchTypes \cup {"NewNote", "NewTime", "NewBase"}

VectorTypes == IntervalTypes \cup {"NewNoteInterval", "NewDuration", "NewBaseVector"}

\* cls.__mro__ without object
Mro(cls) ==
    CASE cls \in PitchTypes -> <<cls, "Pitch", "Point">>
      [] cls = "NewNote" -> <<"NewNote", "PitchA", "Pitch", "Point">>
      [] cls = "NewTime" -> <<"NewTime", "Time", "Point">>
      [] cls = "NewBase" -> <<"NewBase", "Point">>
      [] cls \in IntervalTypes -> <<cls, "Interval", "Vector">>
      [] cls = "NewNoteInterval" -> <<"NewNoteInterval", "PitchAInterval", "Interval", "Vector">>
      [] cls = "NewDuration" -> <<"NewDuration", "Duration", "Vector">>
      [] cls = "NewBaseVector" -> <<"NewBaseVector", "Vector">>
      [] cls = "SpelledPitch" -> <<"SpelledPitch", "Pitch", "Point">>
      [] cls = "MIDIPitch" -> <<"MIDIPitch", "Pitch", "Point">>
      [] cls = "MIDIPitchInterval" -> <<"MIDIPitchInterval", "Interval", "Vector">>
      [] OTHER -> <<cls>>

InMro(base, cls) == \E mro \in {Mro(cls)} : \E i \in 1..Len(mro) : mro[i] = base

\* isinstance(x, cls) for a value x
IsInstance(x, cls) == InMro(cls, x.cls)

\* Attribute lookup along the MRO: the first class that set the attribute
\* itself; the base classes hold None (lines 17 and 122).
RECURSIVE LookupFrom(_, _, _)
LookupFrom(attr, mro, i) ==
    IF i > Len(mro) THEN None
    ELSE IF mro[i] \in DOMAIN attr /\ attr[mro[i]] # None THEN attr[mro[i]]
    ELSE LookupFrom(attr, mro, i + 1)

\* cls._vector_class
VectorClassOf(vc, cls) == LookupFrom(vc, Mro(cls), 1)

\* cls._point_class
PointClassOf(pc, cls) == LookupFrom(pc, Mro(cls), 1)

(***************************************************************************)
(* Values.  An object is [cls, value, is_class]; is_class is the object's  *)
(* _is_pitch_class or _is_interval_class and is FALSE for the classes that *)
(* have no such attribute.  A raised exception is [err |-> name].          *)
(***************************************************************************)
Raise(name) == [err |-> name]

IsErr(x) == "err" \in DOMAIN x

\* F applied to the value of x, which is computed once: a local name of the code
Bind(x, F(_)) == CHOOSE r \in {F(v) : v \in {x}} : TRUE

\* F applied to the value of x, unless x is an exception, which is passed on
Then(x, F(_)) == CHOOSE r \in {IF IsErr(v) THEN v ELSE F(v) : v \in {x}} : TRUE

Obj(cls, value, is_class) == [cls |-> cls, value |-> value, is_class |-> is_class]

IsPitchCls(cls) == InMro("Pitch", cls)

IsIntervalCls(cls) == InMro("Interval", cls)

\* cls._pitch_class_origin and cls._pitch_class_period of the pitch classes
\* of the model; a class that sets none inherits None from Pitch (lines 191-192).
PitchClassOrigin(cls) ==
    CASE InMro("PitchA", cls) -> 0
      [] InMro("PitchB", cls) -> 1
      [] InMro("PitchC", cls) -> 2
      [] InMro("MIDIPitch", cls) -> 60
      [] OTHER -> None

PitchClassPeriod(cls) ==
    CASE InMro("PitchA", cls) -> 4
      [] InMro("PitchB", cls) -> 4
      [] InMro("PitchC", cls) -> 3
      [] InMro("MIDIPitch", cls) -> 12
      [] OTHER -> None

\* "cls._pitch_class_origin is None" and "cls._pitch_class_period is None"
OriginIsNone(cls) ==
    ~(InMro("PitchA", cls) \/ InMro("PitchB", cls) \/ InMro("PitchC", cls)
        \/ InMro("MIDIPitch", cls) \/ InMro("SpelledPitch", cls))

PeriodIsNone(cls) ==
    ~(InMro("PitchA", cls) \/ InMro("PitchB", cls) \/ InMro("PitchC", cls)
        \/ InMro("MIDIPitch", cls))

\* Pitch._map_to_pitch_class (lines 371-376): an integer or an exception
map_to_pitch_class_v1(cls, value) ==
    \* a plausible slip: the origin is not subtracted
    IF OriginIsNone(cls) \/ PeriodIsNone(cls)
    THEN Raise("NotImplementedError")
    ELSE [ok |-> value % PitchClassPeriod(cls)]

map_to_pitch_class(cls, value) ==
    \* SpelledPitch._map_to_pitch_class (lines 648-650): np.array([value[0], 0])
    IF InMro("SpelledPitch", cls) THEN [ok |-> <<value[1], 0>>]
    ELSE IF OriginIsNone(cls) \/ PeriodIsNone(cls)
    THEN Raise("NotImplementedError")
    ELSE [ok |-> (value - PitchClassOrigin(cls)) % PitchClassPeriod(cls)]

\* Interval._map_to_interval_class (lines 491-496); "value > period / 2" is
\* a comparison with a float, 2 * value > period on integers.
map_to_interval_class_v1(pc, cls, value) ==
    \* a plausible slip: half a period is mapped to the negative side
    Bind(PointClassOf(pc, cls), LAMBDA pcls :
      IF pcls = None THEN Raise("AttributeError")
      ELSE IF PeriodIsNone(pcls) THEN Raise("TypeError")
      ELSE Bind(PitchClassPeriod(pcls), LAMBDA period :
             Bind(value % period, LAMBDA v :
               [ok |-> IF 2 * v >= period THEN v - period ELSE v])))

map_to_interval_class(pc, cls, value) ==
    Bind(PointClassOf(pc, cls), LAMBDA pcls :
      IF pcls = None THEN Raise("AttributeError")
      ELSE IF PeriodIsNone(pcls) THEN Raise("TypeError")
      ELSE Bind(PitchClassPeriod(pcls), LAMBDA period :
             Bind(value % period, LAMBDA v :
               [ok |-> IF 2 * v > period THEN v - period ELSE v])))

\* Pitch._check_class_param_consistency (lines 194-219); object_value is
\* "None" when the value is constructed from a number.
check_class_param_consistency_v1(param_value, object_value) ==
    \* a plausible slip: a parameter that contradicts the object wins
    IF param_value = None /\ object_value = None THEN [ok |-> "False"]
    ELSE IF param_value = None THEN [ok |-> object_value]
    ELSE [ok |-> param_value]

check_class_param_consistency(param_value, object_value) ==
    IF param_value = None /\ object_value = None THEN [ok |-> "False"]
    ELSE IF param_value = None THEN [ok |-> object_value]
    ELSE IF object_value = None THEN [ok |-> param_value]
    ELSE IF object_value = param_value THEN [ok |-> param_value]
    ELSE Raise("ValueError")

\* cls(value, is_pitch_class=flag) or cls(value, is_interval_class=flag)
\* for a number: Pitch.__init__ (lines 416-430), Interval.__init__ (lines
\* 498-512), and Point.__init__ / Vector.__init__ (lines 72-74, 134-136) for
\* the classes without a class flag.
New_v1(pc, cls, value, flag) ==
    \* a plausible slip: the flag is set and the value is stored as it is given
    LET is_class == check_class_param_consistency(flag, None)
    IN IF IsPitchCls(cls) \/ IsIntervalCls(cls)
       THEN Obj(cls, value, is_class.ok = "True")
       ELSE IF flag # None THEN Raise("TypeError")
       ELSE Obj(cls, value, FALSE)

New(pc, cls, value, flag) ==
    LET is_class == check_class_param_consistency(flag, None)
    IN IF IsPitchCls(cls)
       THEN IF is_class.ok = "True"
            THEN Then(map_to_pitch_class(cls, value), LAMBDA m : Obj(cls, m.ok, TRUE))
            ELSE Obj(cls, value, FALSE)
       ELSE IF IsIntervalCls(cls)
       THEN IF is_class.ok = "True"
            THEN Then(map_to_interval_class(pc, cls, value),
                      LAMBDA m : Obj(cls, m.ok, TRUE))
            ELSE Obj(cls, value, FALSE)
       \* Point.__init__ and Vector.__init__ hand a keyword on to object.__init__
       ELSE IF flag # None THEN Raise("TypeError")
       ELSE Obj(cls, value, FALSE)

\* The flag of an object as a keyword argument
FlagOf(x) == IF x.is_class THEN "True" ELSE "False"

\* Pitch.to_pitch_class (lines 462-463)
to_pitch_class(pc, x) == New(pc, x.cls, x.value, "True")

\* Interval.to_interval_class (lines 541-542)
to_interval_class(pc, x) == New(pc, x.cls, x.value, "True")

\* __eq__ of Point and Vector (lines 93-97, 161-165): when the one operand's
\* __eq__ returns NotImplemented Python asks the other's, and two objects
\* that both decline are unequal.
Eq_v1(x, y) ==
    \* a plausible slip: only objects of one and the same class are compared
    /\ x.cls = y.cls
    /\ x.value = y.value

Eq(x, y) ==
    /\ IsInstance(y, x.cls) \/ IsInstance(x, y.cls)
    /\ x.value = y.value

(***************************************************************************)
(* Arithmetic.  vc and pc are the two attribute maps of the classes.       *)
(***************************************************************************)
\* Point.__sub__ (lines 79-86): point minus point, else point minus vector
Point_sub_v1(vc, pc, self, other) ==
    \* a plausible slip: the difference is taken the other way round
    IF VectorClassOf(vc, self.cls) = None THEN Raise("AttributeError")
    ELSE IF IsInstance(other, self.cls)
    THEN New(pc, VectorClassOf(vc, self.cls), other.value - self.value, None)
    ELSE IF IsInstance(other, VectorClassOf(vc, self.cls))
    THEN New(pc, self.cls, self.value - other.value, None)
    ELSE Raise("TypeError")

Point_sub(vc, pc, self, other) ==
    IF VectorClassOf(vc, self.cls) = None THEN Raise("AttributeError")
    ELSE IF IsInstance(other, self.cls)
    THEN New(pc, VectorClassOf(vc, self.cls), self.value - other.value, None)
    ELSE IF IsInstance(other, VectorClassOf(vc, self.cls))
    THEN New(pc, self.cls, self.value - other.value, None)
    ELSE Raise("TypeError")

\* Point.__add__ (lines 88-91)
Point_add_v1(vc, pc, self, other) ==
    \* a plausible slip: the other operand is not checked to be a vector
    IF VectorClassOf(vc, self.cls) = None THEN Raise("AttributeError")
    ELSE New(pc, self.cls, self.value + other.value, None)

Point_add(vc, pc, self, other) ==
    IF VectorClassOf(vc, self.cls) = None THEN Raise("AttributeError")
    ELSE IF ~IsInstance(other, VectorClassOf(vc, self.cls)) THEN Raise("TypeError")
    ELSE New(pc, self.cls, self.value + other.value, None)

\* Vector.__sub__ (lines 141-143)
Vector_sub(pc, self, other) ==
    IF ~IsInstance(other, self.cls) THEN Raise("TypeError")
    ELSE New(pc, self.cls, self.value - other.value, None)

\* Vector.__add__ (lines 145-147)
Vector_add(pc, self, other) ==
    IF ~IsInstance(other, self.cls) THEN Raise("TypeError")
    ELSE New(pc, self.cls, self.value + other.value, None)

\* Vector.__mul__ (lines 149-150), other a number
Vector_mul(pc, self, other) == New(pc, self.cls, self.value * other, None)

\* "ret if not self.is_..._class() else ret.to_..._class()", for a ret that
\* is a pitch, an interval, or an object with neither method (lines 444-447)
ToClassIf(pc, is_class, ret) ==
    IF ~is_class THEN ret
    ELSE IF IsPitchCls(ret.cls) THEN to_pitch_class(pc, ret)
    ELSE IF IsIntervalCls(ret.cls) THEN to_interval_class(pc, ret)
    ELSE Raise("AttributeError")

\* Pitch.__sub__ (lines 432-447)
Pitch_sub_v1(vc, pc, self, other) ==
    \* a plausible slip: the class flags of the operands are not compared
    Then(Point_sub(vc, pc, self, other), LAMBDA ret :
      IF ~(IsPitchCls(other.cls) \/ IsIntervalCls(other.cls))
      THEN Raise("AttributeError")
      ELSE ToClassIf(pc, self.is_class, ret))

Pitch_sub(vc, pc, self, other) ==
    Then(Point_sub(vc, pc, self, other), LAMBDA ret :
      IF ~(IsPitchCls(other.cls) \/ IsIntervalCls(other.cls))
      THEN Raise("AttributeError")
      ELSE IF self.is_class # other.is_class THEN Raise("TypeError")
      ELSE ToClassIf(pc, self.is_class, ret))

\* Pitch.__add__ (lines 449-457)
Pitch_add(vc, pc, self, other) ==
    Then(Point_add(vc, pc, self, other), LAMBDA ret :
      IF ~IsIntervalCls(other.cls) THEN Raise("AttributeError")
      ELSE IF self.is_class # other.is_class THEN Raise("TypeError")
      ELSE IF ~self.is_class THEN ret
      ELSE to_pitch_class(pc, ret))

\* Interval.__sub__ (lines 514-522)
Interval_sub(pc, self, other) ==
    Then(Vector_sub(pc, self, other), LAMBDA ret :
      IF self.is_class # other.is_class THEN Raise("TypeError")
      ELSE IF ~self.is_class THEN ret
      ELSE to_interval_class(pc, ret))

\* Interval.__add__ (lines 524-532)
Interval_add(pc, self, other) ==
    Then(Vector_add(pc, self, other), LAMBDA ret :
      IF self.is_class # other.is_class THEN Raise("TypeError")
      ELSE IF ~self.is_class THEN ret
      ELSE to_interval_class(pc, ret))

\* Interval.__mul__ (lines 534-536)
Interval_mul_v1(pc, self, other) ==
    \* a plausible slip: the product of an interval class is not made a class
    Vector_mul(pc, self, other)

Interval_mul(pc, self, other) ==
    Bind(Vector_mul(pc, self, other), LAMBDA ret :
      IF ~self.is_class THEN ret ELSE to_interval_class(pc, ret))

IsPointCls(cls) == InMro("Point", cls)

IsVectorCls(cls) == InMro("Vector", cls)

\* self - other, by the class of self
Sub(vc, pc, self, other) ==
    IF IsPitchCls(self.cls) THEN Pitch_sub(vc, pc, self, other)
    ELSE IF IsPointCls(self.cls) THEN Point_sub(vc, pc, self, other)
    ELSE IF IsIntervalCls(self.cls) THEN Interval_sub(pc, self, other)
    ELSE Vector_sub(pc, self, other)

\* self + other, by the class of self
Add(vc, pc, self, other) ==
    IF IsPitchCls(self.cls) THEN Pitch_add(vc, pc, self, other)
    ELSE IF IsPointCls(self.cls) THEN Point_add(vc, pc, self, other)
    ELSE IF IsIntervalCls(self.cls) THEN Interval_add(pc, self, other)
    ELSE Vector_add(pc, self, other)

\* self * k for a vector and a number k; a point has no __mul__
Mul(pc, self, k) ==
    IF IsIntervalCls(self.cls) THEN Interval_mul(pc, self, k)
    ELSE IF IsVectorCls(self.cls) THEN Vector_mul(pc, self, k)
    ELSE Raise("TypeError")

\* k * self: int.__mul__ declines and Vector.__rmul__ (lines 152-153) calls
\* self.__mul__(k)
RMul(pc, k, self) ==
    IF IsVectorCls(self.cls) THEN Mul(pc, self, k) ELSE Raise("TypeError")

\* Point.to_vector (lines 108-110) and Pitch.to_interval (lines 484-486)
to_interval(vc, pc, x) ==
    IF VectorClassOf(vc, x.cls) = None THEN Raise("AttributeError")
    ELSE New(pc, VectorClassOf(vc, x.cls), x.value, FlagOf(x))

\* Interval.to_pitch (lines 554-556)
to_pitch(pc, x) ==
    IF PointClassOf(pc, x.cls) = None THEN Raise("AttributeError")
    ELSE New(pc, PointClassOf(pc, x.cls), x.value, FlagOf(x))

\* The values of a parameter that is None, True or False.
Flags == {"None", "True", "False"}

\* "x is None or x" of lines 50 and 52
NoneOrTrue(x) == x = None \/ x = "True"

(***************************************************************************)
(* Point.link_vector_class(...)(vector_class): the outcome and the two     *)
(* attribute maps after it.                                                *)
(***************************************************************************)
link_vector_class_v1(vc, pc, pcls, vcls, overwrite_point_class, overwrite_vector_class) ==
    \* a plausible slip: the two overwrite flags guard the wrong attribute
    IF ~InMro("Vector", vcls)
    THEN [err |-> "TypeError", vc |-> vc, pc |-> pc]
    ELSE IF overwrite_point_class = None /\ VectorClassOf(vc, pcls) # None
    THEN [err |-> "AttributeError", vc |-> vc, pc |-> pc]
    ELSE IF overwrite_vector_class = None /\ PointClassOf(pc, vcls) # None
    THEN [err |-> "AttributeError", vc |-> vc, pc |-> pc]
    ELSE [err |-> None,
          vc |-> IF NoneOrTrue(overwrite_vector_class)
                 THEN [vc EXCEPT ![pcls] = vcls] ELSE vc,
          pc |-> IF NoneOrTrue(overwrite_point_class)
                 THEN [pc EXCEPT ![vcls] = pcls] ELSE pc]

link_vector_class_v2(vc, pc, pcls, vcls, overwrite_point_class, overwrite_vector_class) ==
    \* a plausible slip: the point class is given its vector class before the
    \* vector class is checked
    IF ~InMro("Vector", vcls)
    THEN [err |-> "TypeError", vc |-> vc, pc |-> pc]
    ELSE IF overwrite_vector_class = None /\ VectorClassOf(vc, pcls) # None
    THEN [err |-> "AttributeError", vc |-> vc, pc |-> pc]
    ELSE IF overwrite_point_class = None /\ PointClassOf(pc, vcls) # None
    THEN [err |-> "AttributeError", vc |-> [vc EXCEPT ![pcls] = vcls], pc |-> pc]
    ELSE [err |-> None,
          vc |-> IF NoneOrTrue(overwrite_vector_class)
                 THEN [vc EXCEPT ![pcls] = vcls] ELSE vc,
          pc |-> IF NoneOrTrue(overwrite_point_class)
                 THEN [pc EXCEPT ![vcls] = pcls] ELSE pc]

link_vector_class(vc, pc, pcls, vcls, overwrite_point_class, overwrite_vector_class) ==
    IF ~InMro("Vector", vcls)
    THEN [err |-> "TypeError", vc |-> vc, pc |-> pc]
    ELSE IF overwrite_vector_class = None /\ VectorClassOf(vc, pcls) # None
    THEN [err |-> "AttributeError", vc |-> vc, pc |-> pc]
    ELSE IF overwrite_point_class = None /\ PointClassOf(pc, vcls) # None
    THEN [err |-> "AttributeError", vc |-> vc, pc |-> pc]
    ELSE [err |-> None,
          vc |-> IF NoneOrTrue(overwrite_vector_class)
                 THEN [vc EXCEPT ![pcls] = vcls] ELSE vc,
          pc |-> IF NoneOrTrue(overwrite_point_class)
                 THEN [pc EXCEPT ![vcls] = pcls] ELSE pc]

\* Pitch.link_interval_class(overwrite_pitch_class, overwrite_interval_class)(interval_class)
link_interval_class(vc, pc, pitch_cls, interval_cls, overwrite_pitch_class, overwrite_interval_class) ==
    IF ~InMro("Interval", interval_cls)
    THEN [err |-> "TypeError", vc |-> vc, pc |-> pc]
    ELSE link_vector_class(vc, pc, pitch_cls, interval_cls,
                           overwrite_pitch_class, overwrite_interval_class)

\* Time.link_duration_class(overwrite_time_class, overwrite_duration_class)(duration_class)
link_duration_class(vc, pc, time_cls, duration_cls, overwrite_time_class, overwrite_duration_class) ==
    IF ~InMro("Duration", duration_cls)
    THEN [err |-> "TypeError", vc |-> vc, pc |-> pc]
    ELSE link_vector_class(vc, pc, time_cls, duration_cls,
                           overwrite_time_class, overwrite_duration_class)

(***************************************************************************)
(* The converter registry.  A dict is a function on its keys; a converter  *)
(* function is [out, op, keep]: it builds an object of class out from the  *)
(* doubled or the incremented value of its argument and hands the class    *)
(* flag of its argument on (keep) or leaves it out.                        *)
(***************************************************************************)
EmptyDict == [k \in {} |-> <<>>]

\* d[k] = v for a dict d
DictSet(d, k, v) == [x \in DOMAIN d \cup {k} |-> IF x = k THEN v ELSE d[x]]

\* Pitch._converters_[from_type][to_type] = pipeline
PutPipeline(conv, from_type, to_type, pipeline) ==
    DictSet(conv, from_type, DictSet(conv[from_type], to_type, pipeline))

\* Pitch.get_converter(from_type, to_type) (lines 295-309)
get_converter(conv, from_type, to_type) ==
    IF from_type \notin DOMAIN conv THEN Raise("NotImplementedError")
    ELSE IF to_type \notin DOMAIN conv[from_type] THEN Raise("NotImplementedError")
    ELSE [ok |-> conv[from_type][to_type]]

HasPipeline(conv, from_type, to_type) == ~IsErr(get_converter(conv, from_type, to_type))

\* What lines 250-268 decide from the existing pipeline and the two
\* overwrite parameters: "raise", "set" or "keep".
OverwriteDecision_v1(existing, overwrite_explicit_converters, overwrite_implicit_converter) ==
    \* a plausible slip: an unspecified policy overwrites instead of raising
    IF IsErr(existing) THEN "set"
    ELSE IF Len(existing.ok) = 1
    THEN IF overwrite_explicit_converters \in {None, "True"} THEN "set" ELSE "keep"
    ELSE IF overwrite_implicit_converter THEN "set" ELSE "keep"

OverwriteDecision_v2(existing, overwrite_explicit_converters, overwrite_implicit_converter) ==
    \* a plausible slip: an implicit converter is never replaced
    IF IsErr(existing) THEN "set"
    ELSE IF Len(existing.ok) = 1
    THEN IF overwrite_explicit_converters = None THEN "raise"
         ELSE IF overwrite_explicit_converters = "True" THEN "set" ELSE "keep"
    ELSE "keep"

OverwriteDecision(existing, overwrite_explicit_converters, overwrite_implicit_converter) ==
    IF IsErr(existing) THEN "set"
    ELSE IF Len(existing.ok) = 1
    THEN IF overwrite_explicit_converters = None THEN "raise"
         ELSE IF overwrite_explicit_converters = "True" THEN "set" ELSE "keep"
    ELSE IF overwrite_implicit_converter THEN "set" ELSE "keep"

\* [conv_func] + converter_pipeline (line 284)
Prepended_v1(conv_func, converter_pipeline) ==
    \* a plausible slip: the new function is put at the wrong end
    converter_pipeline \o <<conv_func>>

Prepended(conv_func, converter_pipeline) == <<conv_func>> \o converter_pipeline

\* converter_pipeline + [conv_func] (line 290)
Appended_v1(converter_pipeline, conv_func) ==
    \* a plausible slip: the list of the new function alone is stored
    <<conv_func>>

Appended(converter_pipeline, conv_func) == converter_pipeline \o <<conv_func>>

\* The keys of a dict in the order the loop visits them.  The loops of lines
\* 274-293 add only keys that are absent and read only pipelines that were
\* there before the loop, so every order gives the same registry.
RECURSIVE KeySeq(_)
KeySeq(S) ==
    IF S = {} THEN <<>>
    ELSE LET k == CHOOSE x \in S : TRUE IN <<k>> \o KeySeq(S \ {k})

\* One pass of the inner loop body (lines 277-290) for the item
\* another_to_type of the dict of another_from_type; st is [conv, new], the
\* registry and the list new_converters.
ExtendItem_v1(st, another_from_type, another_to_type, from_type, to_type, conv_func) ==
    \* a plausible slip: the extended converter replaces one that exists
    LET converter_pipeline == st.conv[another_from_type][another_to_type]
        conv1 == IF to_type = another_from_type
                 THEN PutPipeline(st.conv, from_type, another_to_type,
                                  Prepended(conv_func, converter_pipeline))
                 ELSE st.conv
        new1 == IF another_to_type = from_type
                THEN Append(st.new, <<to_type, Appended(converter_pipeline, conv_func)>>)
                ELSE st.new
    IN [conv |-> conv1, new |-> new1]

ExtendItem(st, another_from_type, another_to_type, from_type, to_type, conv_func) ==
    LET converter_pipeline == st.conv[another_from_type][another_to_type]
        conv1 == IF to_type = another_from_type
                    /\ another_to_type \notin DOMAIN st.conv[from_type]
                 THEN PutPipeline(st.conv, from_type, another_to_type,
                                  Prepended(conv_func, converter_pipeline))
                 ELSE st.conv
        new1 == IF another_to_type = from_type
                   /\ to_type \notin DOMAIN conv1[another_from_type]
                THEN Append(st.new, <<to_type, Appended(converter_pipeline, conv_func)>>)
                ELSE st.new
    IN [conv |-> conv1, new |-> new1]

\* The inner loop over other_converters.items() (line 277).  The loops are
\* written as "CHOOSE r \in {Rest(next) : next \in {Step}} : TRUE", the rest
\* of the loop applied to the value of one pass.
RECURSIVE ExtendItems(_, _, _, _, _, _)
ExtendItems(st, another_from_type, keys, from_type, to_type, conv_func) ==
    IF keys = <<>> THEN st
    ELSE CHOOSE r \in
           {ExtendItems(next, another_from_type, Tail(keys), from_type, to_type, conv_func) :
              next \in {ExtendItem(st, another_from_type, Head(keys), from_type, to_type, conv_func)}} :
           TRUE

\* "for key, val in new_converters: other_converters[key] = val" (lines 292-293)
RECURSIVE InsertNew(_, _, _)
InsertNew(conv, another_from_type, new) ==
    IF new = <<>> THEN conv
    ELSE CHOOSE r \in
           {InsertNew(next, another_from_type, Tail(new)) :
              next \in {PutPipeline(conv, another_from_type, Head(new)[1], Head(new)[2])}} :
           TRUE

\* The outer loop over Pitch._converters_.items() (lines 274-293)
RECURSIVE ExtendAll(_, _, _, _, _)
ExtendAll(conv, from_keys, from_type, to_type, conv_func) ==
    IF from_keys = <<>> THEN conv
    ELSE LET another_from_type == Head(from_keys)
         IN CHOOSE r \in
              {ExtendAll(InsertNew(st.conv, another_from_type, st.new),
                         Tail(from_keys), from_type, to_type, conv_func) :
                 st \in {ExtendItems([conv |-> conv, new |-> <<>>], another_from_type,
                                     KeySeq(DOMAIN conv[another_from_type]),
                                     from_type, to_type, conv_func)}} :
              TRUE

\* Pitch.register_converter (lines 226-293): [err, conv], the exception
\* raised (or None) and the registry afterwards
register_converter(conv, from_type, to_type, conv_func, overwrite_explicit_converters, overwrite_implicit_converter, extend_implicit_converters) ==
    LET conv0 == IF from_type \notin DOMAIN conv
                 THEN DictSet(conv, from_type, EmptyDict) ELSE conv
        decision == OverwriteDecision(get_converter(conv0, from_type, to_type),
                                      overwrite_explicit_converters,
                                      overwrite_implicit_converter)
        conv1 == IF decision = "set"
                 THEN PutPipeline(conv0, from_type, to_type, <<conv_func>>) ELSE conv0
    IN IF decision = "raise" THEN [err |-> "ValueError", conv |-> conv0]
       ELSE IF extend_implicit_converters
       THEN [err |-> None,
             conv |-> ExtendAll(conv1, KeySeq(DOMAIN conv1), from_type, to_type, conv_func)]
       ELSE [err |-> None, conv |-> conv1]

\* A converter function called on an object
ApplyConv(pc, conv_func, x) ==
    New(pc, conv_func.out,
        IF conv_func.op = "double" THEN 2 * x.value ELSE x.value + 1,
        IF conv_func.keep THEN FlagOf(x) ELSE None)

\* "for converter in pipeline: ret = converter(ret)" (lines 320-322), from
\* the i-th function on
RECURSIVE RunPipeline(_, _, _, _)
RunPipeline(pc, pipeline, i, ret) ==
    IF i > Len(pipeline) \/ IsErr(ret) THEN ret
    ELSE RunPipeline(pc, pipeline, i + 1, ApplyConv(pc, pipeline[i], ret))

\* Pitch._convert (lines 311-337)
convert_v1(conv, pc, value, to_type) ==
    \* a plausible slip: the class flag of the result is not compared
    IF ~(IsPitchCls(value.cls) \/ IsIntervalCls(value.cls)) THEN Raise("TypeError")
    ELSE IF ~(IsPitchCls(to_type) \/ IsIntervalCls(to_type)) THEN Raise("TypeError")
    ELSE IF to_type = value.cls THEN value
    ELSE Then(get_converter(conv, value.cls, to_type), LAMBDA pipeline :
           Then(RunPipeline(pc, pipeline.ok, 1, value), LAMBDA ret :
             IF ~IsInstance(ret, to_type) THEN Raise("TypeError")
             ELSE ToClassIf(pc, value.is_class, ret)))

convert_v2(conv, pc, value, to_type) ==
    \* a plausible slip: a missing converter returns the value unconverted
    IF ~(IsPitchCls(value.cls) \/ IsIntervalCls(value.cls)) THEN Raise("TypeError")
    ELSE IF ~(IsPitchCls(to_type) \/ IsIntervalCls(to_type)) THEN Raise("TypeError")
    ELSE IF to_type = value.cls THEN value
    ELSE Bind(get_converter(conv, value.cls, to_type), LAMBDA pipeline :
           IF IsErr(pipeline) THEN value
           ELSE Then(RunPipeline(pc, pipeline.ok, 1, value), LAMBDA ret :
                  IF ~IsInstance(ret, to_type) THEN Raise("TypeError")
                  ELSE IF value.is_class # ret.is_class THEN Raise("TypeError")
                  ELSE ToClassIf(pc, value.is_class, ret)))

convert(conv, pc, value, to_type) ==
    IF ~(IsPitchCls(value.cls) \/ IsIntervalCls(value.cls)) THEN Raise("TypeError")
    ELSE IF ~(IsPitchCls(to_type) \/ IsIntervalCls(to_type)) THEN Raise("TypeError")
    ELSE IF to_type = value.cls THEN value
    ELSE Then(get_converter(conv, value.cls, to_type), LAMBDA pipeline :
           Then(RunPipeline(pc, pipeline.ok, 1, value), LAMBDA ret :
             IF ~IsInstance(ret, to_type) THEN Raise("TypeError")
             ELSE IF value.is_class # ret.is_class THEN Raise("TypeError")
             ELSE ToClassIf(pc, value.is_class, ret)))

\* Pitch.convert_to (lines 480-482)
Pitch_convert_to(conv, pc, self, other_type) ==
    IF ~IsPitchCls(other_type) THEN Raise("TypeError")
    ELSE convert(conv, pc, self, other_type)

\* The except branch of Interval.convert_to (lines 564-581): the interval is
\* converted as a pitch and the result is moved by the difference of the
\* two origins.  The statements follow each other as in the method:
\*   other_interval = self.to_pitch().convert_to(other_type._point_class).to_interval()
\*   origin_from = (self - self).to_pitch().convert_to(other_type._point_class)
\*   origin_to = (other_interval - other_interval).to_pitch()
\*   origin_difference = origin_to - origin_from
\*   out = other_interval + origin_difference
ConvertViaPitch_v1(conv, vc, pc, self, other_type) ==
    \* a plausible slip: the difference of the origins is taken the other way round
    IF PointClassOf(pc, self.cls) = None \/ PointClassOf(pc, other_type) = None
    THEN Raise("AttributeError")
    ELSE
      Then(Then(Then(to_pitch(pc, self),
                     LAMBDA p : Pitch_convert_to(conv, pc, p, PointClassOf(pc, other_type))),
                LAMBDA q : to_interval(vc, pc, q)),
      LAMBDA other_interval :
      Then(Then(Then(Sub(vc, pc, self, self),
                     LAMBDA z : to_pitch(pc, z)),
                LAMBDA p : Pitch_convert_to(conv, pc, p, PointClassOf(pc, other_type))),
      LAMBDA origin_from :
      Then(Then(Sub(vc, pc, other_interval, other_interval),
                LAMBDA z : to_pitch(pc, z)),
      LAMBDA origin_to :
      Then(Sub(vc, pc, origin_from, origin_to),
      LAMBDA origin_difference :
      Then(Add(vc, pc, other_interval, origin_difference),
      LAMBDA out :
        IF ~IsInstance(out, other_type) THEN Raise("TypeError")
        ELSE IF ~self.is_class THEN out
        ELSE to_interval_class(pc, out))))))

ConvertViaPitch(conv, vc, pc, self, other_type) ==
    IF PointClassOf(pc, self.cls) = None \/ PointClassOf(pc, other_type) = None
    THEN Raise("AttributeError")
    ELSE
      Then(Then(Then(to_pitch(pc, self),
                     LAMBDA p : Pitch_convert_to(conv, pc, p, PointClassOf(pc, other_type))),
                LAMBDA q : to_interval(vc, pc, q)),
      LAMBDA other_interval :
      Then(Then(Then(Sub(vc, pc, self, self),
                     LAMBDA z : to_pitch(pc, z)),
                LAMBDA p : Pitch_convert_to(conv, pc, p, PointClassOf(pc, other_type))),
      LAMBDA origin_from :
      Then(Then(Sub(vc, pc, other_interval, other_interval),
                LAMBDA z : to_pitch(pc, z)),
      LAMBDA origin_to :
      Then(Sub(vc, pc, origin_to, origin_from),
      LAMBDA origin_difference :
      Then(Add(vc, pc, other_interval, origin_difference),
      LAMBDA out :
        IF ~IsInstance(out, other_type) THEN Raise("TypeError")
        ELSE IF ~self.is_class THEN out
        ELSE to_interval_class(pc, out))))))

\* Interval.convert_to (lines 558-581)
Interval_convert_to(conv, vc, pc, self, other_type) ==
    IF ~IsIntervalCls(other_type) THEN Raise("TypeError")
    ELSE Bind(convert(conv, pc, self, other_type), LAMBDA direct :
           IF IsErr(direct) /\ direct.err = "NotImplementedError"
           THEN ConvertViaPitch(conv, vc, pc, self, other_type)
           ELSE direct)

\* x.convert_to(other_type) for a pitch or an interval x
convert_to(conv, vc, pc, x, other_type) ==
    IF IsPitchCls(x.cls) THEN Pitch_convert_to(conv, pc, x, other_type)
    ELSE Interval_convert_to(conv, vc, pc, x, other_type)

(***************************************************************************)
(* Division of a vector by a number.                                       *)
(***************************************************************************)
\* An object whose _value is itself an object, as Vector.__init__ (lines
\* 134-136) stores whatever it is given.
Nested(cls, inner) == [cls |-> cls, wraps |-> inner, is_class |-> FALSE]

IsNested(x) == "wraps" \in DOMAIN x

\* cls(value, is_pitch_class=flag) for a pitch class cls and a value that is
\* a pitch: Pitch.__init__ (lines 416-430) converts the pitch to cls, takes
\* its value, and checks the flag against the flag of the pitch.
Pitch_from(conv, pc, cls, value, flag) ==
    Then(Pitch_convert_to(conv, pc, value, cls),
         LAMBDA converted :
           Then(check_class_param_consistency(flag, FlagOf(value)),
                LAMBDA is_class : New(pc, cls, converted.value, is_class.ok)))

\* cls(value, is_interval_class=flag) for an interval class cls and a value
\* that is an interval: Interval.__init__ (lines 498-512)
Interval_from(conv, vc, pc, cls, value, flag) ==
    Then(Interval_convert_to(conv, vc, pc, value, cls),
         LAMBDA converted :
           Then(check_class_param_consistency(flag, FlagOf(value)),
                LAMBDA is_class : New(pc, cls, converted.value, is_class.ok)))

\* cls(value) for a vector class cls and a value that is itself a vector:
\* Interval.__init__ (lines 498-512) takes the value and the flag of an
\* interval through convert_to, Duration.__init__ (lines 610-616) calls
\* convert_to on a duration, which neither Duration nor Vector defines, and
\* Vector.__init__ (lines 134-136) stores the object.
Vector_from(conv, vc, pc, cls, value) ==
    IF IsIntervalCls(cls) /\ IsIntervalCls(value.cls)
    THEN Interval_from(conv, vc, pc, cls, value, None)
    ELSE IF InMro("Duration", cls) /\ InMro("Duration", value.cls)
    THEN Raise("AttributeError")
    ELSE Nested(cls, value)

\* value * (1 / other) for a value that other divides: the product is the
\* exact quotient (a float of that value)
Quotient(value, other) ==
    IF other > 0 THEN value \div other ELSE (0 - value) \div (0 - other)

\* Vector.__truediv__ (lines 155-156): self.__class__(self.__mul__(1 / other)),
\* where __mul__ is that of the class of self (lines 149-150, 534-536)
Vector_truediv(conv, vc, pc, self, other) ==
    IF other = 0 THEN Raise("ZeroDivisionError")
    ELSE Then(Then(New(pc, self.cls, Quotient(self.value, other), None),
                   LAMBDA scaled : IF IsIntervalCls(self.cls) /\ self.is_class
                                   THEN to_interval_class(pc, scaled)
                                   ELSE scaled),
              LAMBDA ret : Vector_from(conv, vc, pc, self.cls, ret))

\* self / other: a point has no __truediv__
Truediv(conv, vc, pc, self, other) ==
    IF IsVectorCls(self.cls) THEN Vector_truediv(conv, vc, pc, self, other)
    ELSE Raise("TypeError")

(***************************************************************************)
(* Pitch names.  A name is the three groups SpelledPitch.name_regex (line  *)
(* 644) finds in it: the class, a letter; the modifiers, a sequence of "#" *)
(* or a sequence of "b"; the octave, <<>> for the empty string or <<n>>.   *)
(***************************************************************************)
\* SpelledPitch._diatonic_fifth_steps (line 643)
diatonic_fifth_steps(class) ==
    CASE class = "F" -> 0 - 1
      [] class = "C" -> 0
      [] class = "G" -> 1
      [] class = "D" -> 2
      [] class = "A" -> 3
      [] class = "E" -> 4
      [] class = "B" -> 5

\* SpelledPitch(value=name, is_pitch_class=flag) (lines 652-691)
SpelledPitch_new(pc, name, flag) ==
    LET sharp == \E i \in 1..Len(name.modifiers) : name.modifiers[i] = "#"
        fifths == IF sharp
                  THEN diatonic_fifth_steps(name.class) + 7 * Len(name.modifiers)
                  ELSE diatonic_fifth_steps(name.class) - 7 * Len(name.modifiers)
    IN IF name.octave = <<>>
       THEN IF flag = "False" THEN Raise("ValueError")
            ELSE New(pc, "SpelledPitch", <<fifths, 0>>, "True")
       ELSE IF flag = "True" THEN Raise("ValueError")
            ELSE New(pc, "SpelledPitch", <<fifths, name.octave[1]>>, "False")

\* MIDIPitch.convert_from_SpelledPitch (lines 735-746); the value of a
\* spelled pitch is <<fifth steps, octave>>
convert_from_SpelledPitch(pc, spelled_pitch) ==
    LET fifth_steps_from_f == spelled_pitch.value[1] + 1
        base_pitch == (((fifth_steps_from_f % 7) - 1) * 7) % 12
        accidentals == fifth_steps_from_f \div 7
    IN New(pc, "MIDIPitch",
           12 * (spelled_pitch.value[2] + 1) + base_pitch + accidentals,
           FlagOf(spelled_pitch))

\* Pitch._convert (lines 311-337) of a spelled pitch to MIDIPitch, for the
\* pipeline of the one function that line 808 registers
convert_spelled(conv, pc, value) ==
    IF ~HasPipeline(conv, "SpelledPitch", "MIDIPitch") THEN Raise("NotImplementedError")
    ELSE Then(convert_from_SpelledPitch(pc, value),
              LAMBDA ret : IF ~IsInstance(ret, "MIDIPitch") THEN Raise("TypeError")
                           ELSE IF value.is_class # ret.is_class THEN Raise("TypeError")
                           ELSE ToClassIf(pc, value.is_class, ret))

\* MIDIPitch(value=name, is_pitch_class=flag) (lines 748-760): the name is
\* made a spelled pitch, which Pitch.__init__ (lines 416-430) converts
\* before it checks the flag
MIDIPitch_from_name(conv, pc, name, flag) ==
    Then(SpelledPitch_new(pc, name, flag),
         LAMBDA value :
           Then(convert_spelled(conv, pc, value),
                LAMBDA converted :
                  Then(check_class_param_consistency(flag, FlagOf(value)),
                       LAMBDA is_class : New(pc, "MIDIPitch", converted.value, is_class.ok))))

\* A string is a sequence of characters.  The decimal digits, by their value
DigitChars == <<"0", "1", "2", "3", "4", "5", "6", "7", "8", "9">>

IsDigit(c) == \E d \in 1..10 : DigitChars[d] = c

\* int(s) of a string of digits with an optional minus sign (line 681)
RECURSIVE DigitsValue(_)
DigitsValue(s) ==
    IF s = <<>> THEN 0
    ELSE 10 * DigitsValue(SubSeq(s, 1, Len(s) - 1))
             + (CHOOSE d \in 0..9 : DigitChars[d + 1] = s[Len(s)])

int(s) == IF s[1] = "-" THEN 0 - DigitsValue(Tail(s)) ELSE DigitsValue(s)

\* The group "modifiers" of name_regex (line 644): (b*)|(#*)
MatchesModifiers(s) ==
    \/ \A i \in 1..Len(s) : s[i] = "b"
    \/ \A i \in 1..Len(s) : s[i] = "#"

\* The group "octave" of name_regex: (-?[0-9]+)?
MatchesOctave(s) ==
    \/ s = <<>>
    \/ /\ s[1] = "-"
       /\ Len(s) >= 2
       /\ \A i \in 2..Len(s) : IsDigit(s[i])
    \/ \A i \in 1..Len(s) : IsDigit(s[i])

\* SpelledPitch.name_regex.match(value) (lines 644, 658): <<>> for None, or
\* the match with its three groups
name_regex_match_v1(value) ==
    \* a plausible slip: [b#]* for the modifiers, sharps and flats mixed
    IF value = <<>> THEN <<>>
    ELSE IF value[1] \notin {"A", "B", "C", "D", "E", "F", "G"} THEN <<>>
    ELSE Bind({k \in 1..Len(value) :
                  /\ \A i \in 2..k : value[i] \in {"b", "#"}
                  /\ (k < Len(value) => value[k + 1] \notin {"b", "#"})
                  /\ MatchesOctave(SubSeq(value, k + 1, Len(value)))},
              LAMBDA ends :
                IF ends = {} THEN <<>>
                ELSE Bind(CHOOSE k \in ends : TRUE, LAMBDA k :
                       <<[class |-> value[1],
                          modifiers |-> SubSeq(value, 2, k),
                          octave |-> SubSeq(value, k + 1, Len(value))]>>))

name_regex_match(value) ==
    IF value = <<>> THEN <<>>
    ELSE IF value[1] \notin {"A", "B", "C", "D", "E", "F", "G"} THEN <<>>
    ELSE Bind({k \in 1..Len(value) :
                  /\ MatchesModifiers(SubSeq(value, 2, k))
                  /\ MatchesOctave(SubSeq(value, k + 1, Len(value)))},
              LAMBDA ends :
                IF ends = {} THEN <<>>
                ELSE Bind(CHOOSE k \in ends : TRUE, LAMBDA k :
                       <<[class |-> value[1],
                          modifiers |-> SubSeq(value, 2, k),
                          octave |-> SubSeq(value, k + 1, Len(value))]>>))

\* MIDIPitch(value) for a string (lines 748-760): SpelledPitch.__init__
\* raises ValueError for a string the expression does not match (lines
\* 658-661) and reads the octave with int (line 681)
MIDIPitch_from_str(conv, pc, value, flag) ==
    Bind(name_regex_match(value), LAMBDA match :
      IF match = <<>> THEN Raise("ValueError")
      ELSE MIDIPitch_from_name(conv, pc,
               [class |-> match[1].class,
                modifiers |-> match[1].modifiers,
                octave |-> IF match[1].octave = <<>> THEN <<>>
                           ELSE <<int(match[1].octave)>>],
               flag))

\* The registry after line 808:
\* Pitch.register_converter(SpelledPitch, MIDIPitch, MIDIPitch.convert_from_SpelledPitch)
ImportRegistry ==
    register_converter(EmptyDict, "SpelledPitch", "MIDIPitch",
                       [out |-> "MIDIPitch", op |-> "from_spelled", keep |-> TRUE],
                       None, TRUE, TRUE).conv

LinkMethods == {"link_vector_class", "link_interval_class", "link_duration_class"}

\* The class a link method is defined on: it is a classmethod of Point, of
\* Pitch or of Time, so it can be called on the classes derived from that one.
MethodOwner(method) ==
    CASE method = "link_vector_class" -> "Point"
      [] method = "link_interval_class" -> "Pitch"
      [] method = "link_duration_class" -> "Time"

LinkResult(method, vc, pc, pcls, vcls, opc, ovc) ==
    CASE method = "link_vector_class" -> link_vector_class(vc, pc, pcls, vcls, opc, ovc)
      [] method = "link_interval_class" -> link_interval_class(vc, pc, pcls, vcls, opc, ovc)
      [] method = "link_duration_class" -> link_duration_class(vc, pc, pcls, vcls, opc, ovc)

Snapshot == [vector_class |-> vector_class, point_class |-> point_class,
             converters |-> converters]

\* The classes the link calls of the model are made on.
LinkPoints == {"PitchA", "NewNote", "NewTime"}

LinkVectors == {"PitchAInterval", "NewNoteInterval", "NewDuration"}

MaxLinks == 2

\* One decorated class definition:  @pcls.<method>(...) class vcls
Link(method, pcls, vcls, opc, ovc) ==
    /\ ncalls < MaxLinks
    /\ InMro(MethodOwner(method), pcls)
    /\ LET r == LinkResult(method, vector_class, point_class, pcls, vcls, opc, ovc)
       IN /\ vector_class' = r.vc
          /\ point_class' = r.pc
          /\ call' = [op |-> method, point |-> pcls, vector |-> vcls,
                      overwrite_point_class |-> opc, overwrite_vector_class |-> ovc,
                      err |-> r.err]
    /\ pre' = Snapshot
    /\ ncalls' = ncalls + 1
    /\ defaults' = (defaults /\ opc = None /\ ovc = None)
    /\ UNCHANGED converters

NoCall == [op |-> None, err |-> None]

\* The classes as they are defined, before any decorator has run.
InitLink ==
    /\ vector_class = [c \in PointTypes |-> None]
    /\ point_class = [c \in VectorTypes |-> None]
    /\ converters = <<>>
    /\ call = NoCall
    /\ pre = [vector_class |-> vector_class, point_class |-> point_class,
              converters |-> converters]
    /\ ncalls = 0
    /\ defaults = TRUE

NextLink ==
    \E method \in LinkMethods, pcls \in LinkPoints, vcls \in LinkVectors,
       opc \in Flags, ovc \in Flags :
        Link(method, pcls, vcls, opc, ovc)

SpecLink == InitLink /\ [][NextLink]_vars

(***************************************************************************)
(* The registry and the conversions.                                       *)
(***************************************************************************)
\* The links the class definitions of the tests and of midi.py make: every
\* pitch class with its interval class by a default call, the derived class
\* by a forced one (midi.py line 37).
LinkedVectorClass ==
    [c \in PointTypes |->
        CASE c = "PitchA" -> "PitchAInterval"
          [] c = "PitchB" -> "PitchBInterval"
          [] c = "PitchC" -> "PitchCInterval"
          [] c = "PitchD" -> "PitchDInterval"
          [] c = "NewNote" -> "NewNoteInterval"
          [] c = "NewTime" -> "NewDuration"
          [] c = "NewBase" -> "NewBaseVector"]

LinkedPointClass ==
    [c \in VectorTypes |->
        CHOOSE p \in PointTypes : LinkedVectorClass[p] = c]

\* The classes converters are registered between; a call names two
\* different classes (convert skips the conversion of a class to itself).
RegTypes == {"PitchA", "PitchB", "PitchC"}

\* The converter functions a call registers for to_type: they return a
\* to_type object with the class flag of their argument (as
\* MIDIPitch.convert_from_SpelledPitch does).
ConvFuncs(to_type) ==
    {[out |-> to_type, op |-> "double", keep |-> TRUE],
     [out |-> to_type, op |-> "succ", keep |-> TRUE]}

MaxRegs == 2

\* Pitch.register_converter(from_type, to_type, conv_func, ...)
Register(from_type, to_type, conv_func, overwrite_explicit_converters, overwrite_implicit_converter, extend_implicit_converters) ==
    /\ ncalls < MaxRegs
    /\ LET r == register_converter(converters, from_type, to_type, conv_func,
                                   overwrite_explicit_converters,
                                   overwrite_implicit_converter,
                                   extend_implicit_converters)
       IN /\ converters' = r.conv
          /\ call' = [op |-> "register_converter", from_type |-> from_type,
                      to_type |-> to_type, conv_func |-> conv_func,
                      overwrite_explicit_converters |-> overwrite_explicit_converters,
                      overwrite_implicit_converter |-> overwrite_implicit_converter,
                      extend_implicit_converters |-> extend_implicit_converters,
                      err |-> r.err]
    /\ pre' = Snapshot
    /\ ncalls' = ncalls + 1
    /\ defaults' = (defaults /\ extend_implicit_converters)
    /\ UNCHANGED <<vector_class, point_class>>

\* The registry as the import of datatypes.py leaves it (lines 808 and 855):
\* two converters registered in a chain with the default parameters, which
\* adds the implicit third.
ChainRegistry ==
    register_converter(
        register_converter(EmptyDict, "PitchA", "PitchB",
                           [out |-> "PitchB", op |-> "double", keep |-> TRUE],
                           None, TRUE, TRUE).conv,
        "PitchB", "PitchC", [out |-> "PitchC", op |-> "succ", keep |-> TRUE],
        None, TRUE, TRUE).conv

\* Two converters between four classes, registered with the default parameters.
TwoPairsRegistry ==
    register_converter(
        register_converter(EmptyDict, "PitchA", "PitchB",
                           [out |-> "PitchB", op |-> "double", keep |-> TRUE],
                           None, TRUE, TRUE).conv,
        "PitchC", "PitchD", [out |-> "PitchD", op |-> "succ", keep |-> TRUE],
        None, TRUE, TRUE).conv

\* The classes are defined and linked; the registry is empty, as it is for
\* the classes a test defines, or holds the chain of the import, or two
\* converters that have no class in common.
Init ==
    /\ vector_class = LinkedVectorClass
    /\ point_class = LinkedPointClass
    /\ converters \in {EmptyDict, ChainRegistry, TwoPairsRegistry}
    /\ call = NoCall
    /\ pre = [vector_class |-> vector_class, point_class |-> point_class,
              converters |-> converters]
    /\ ncalls = 0
    /\ defaults = TRUE

Next ==
    \E from_type \in RegTypes :
      \E to_type \in RegTypes \ {from_type} :
        \E conv_func \in ConvFuncs(to_type), oe \in Flags, oi \in BOOLEAN, ext \in BOOLEAN :
            Register(from_type, to_type, conv_func, oe, oi, ext)

Spec == Init /\ [][Next]_vars

IsRegisterCall == call.op = "register_converter"

\* An explicit converter: a stored pipeline of length 1 (lines 236-237)
IsExplicit(conv, from_type, to_type) ==
    HasPipeline(conv, from_type, to_type) /\ Len(conv[from_type][to_type]) = 1

IsImplicit(conv, from_type, to_type) ==
    HasPipeline(conv, from_type, to_type) /\ Len(conv[from_type][to_type]) > 1

(***************************************************************************)
(* C1, as claimed.  After register calls that all extend the implicit      *)
(* converters, a stored pipeline A->B and a stored pipeline B->C come with *)
(* a stored pipeline A->C.  It is stated here for three different classes: *)
(* the claim, which speaks of all classes, is the stronger statement.      *)
(***************************************************************************)
C1_TransitivelyClosed ==
    defaults =>
        \A a \in PitchTypes, b \in PitchTypes, c \in PitchTypes :
            (a # b /\ b # c /\ a # c /\
             HasPipeline(converters, a, b) /\ HasPipeline(converters, b, c))
                => HasPipeline(converters, a, c)

(***************************************************************************)
(* C4.  A register call that leaves overwrite_explicit_converters          *)
(* unspecified while an explicit pipeline is stored for its pair raises    *)
(* ValueError and leaves the registry as it was.                           *)
(***************************************************************************)
C4_ExplicitConflictRaises ==
    (/\ IsRegisterCall
     /\ call.overwrite_explicit_converters = None
     /\ IsExplicit(pre.converters, call.from_type, call.to_type))
    => (call.err = "ValueError" /\ converters = pre.converters)

\* The conflict was raised by a call that would have extended other pipelines.
C4_Witness ==
    /\ IsRegisterCall
    /\ call.overwrite_explicit_converters = None
    /\ call.extend_implicit_converters
    /\ IsExplicit(pre.converters, call.from_type, call.to_type)
    /\ pre.converters[call.from_type][call.to_type] # <<call.conv_func>>
    /\ HasPipeline(pre.converters, call.to_type, call.from_type)
    /\ call.err = "ValueError"

MaxVal == 1

\* The numbers the values of the model wrap
WrappedValues == (0 - 1)..MaxVal

\* The objects of a pitch or interval class: cls(v) and, where the class can
\* map to a class value, cls(v, is_pitch_class=True)
ValuesOf(pc, cls) ==
    {x \in {New(pc, cls, v, f) : v \in WrappedValues, f \in {"False", "True"}} :
        ~IsErr(x)}

\* The pairs (B, A) the claim C2 speaks of, for the register call C->B that
\* was just made: the call extended the implicit converters and installed
\* its function, and B->A was an explicit converter before.
C2_Given(a) ==
    /\ IsRegisterCall
    /\ call.err = None
    /\ call.extend_implicit_converters
    /\ converters[call.from_type][call.to_type] = <<call.conv_func>>
    /\ IsExplicit(pre.converters, call.to_type, a)

\* The C->B function and then the B->A function applied to c
C2_Composed(a, c) ==
    ApplyConv(point_class, pre.converters[call.to_type][a][1],
              ApplyConv(point_class, call.conv_func, c))

InstallsNew(conv, c) ==
    \/ ~HasPipeline(conv, c.from_type, c.to_type)
    \/ IsExplicit(conv, c.from_type, c.to_type) /\ c.overwrite_explicit_converters = "True"
    \/ IsImplicit(conv, c.from_type, c.to_type) /\ c.overwrite_implicit_converter

(***************************************************************************)
(* C5.  A register call that does not raise stores [conv_func] for its     *)
(* pair when no pipeline was stored for it, or an explicit one and         *)
(* overwrite_explicit_converters is True, or an implicit one and           *)
(* overwrite_implicit_converter is true; otherwise the pipeline of the     *)
(* pair is the one that was stored before.                                 *)
(***************************************************************************)
C5_OverwritePolicy ==
    (IsRegisterCall /\ call.err = None)
    => /\ HasPipeline(converters, call.from_type, call.to_type)
       /\ IF InstallsNew(pre.converters, call)
          THEN converters[call.from_type][call.to_type] = <<call.conv_func>>
          ELSE /\ HasPipeline(pre.converters, call.from_type, call.to_type)
               /\ converters[call.from_type][call.to_type]
                      = pre.converters[call.from_type][call.to_type]

\* An implicit pipeline was kept because overwrite_implicit_converter was false,
\* in a call that extended the implicit converters.
C5_Witness ==
    /\ IsRegisterCall
    /\ call.err = None
    /\ ~call.overwrite_implicit_converter
    /\ call.extend_implicit_converters
    /\ IsImplicit(pre.converters, call.from_type, call.to_type)
    /\ IsImplicit(converters, call.from_type, call.to_type)

(***************************************************************************)
(* The conversions: convert_to applied to the values of the classes, with  *)
(* the registry two register calls leave.                                  *)
(***************************************************************************)
\* The classes of the values that are converted and the classes they are
\* converted to
ConvTypes == {"PitchA", "PitchB", "PitchC", "NewNote",
              "PitchAInterval", "PitchBInterval", "PitchCInterval", "NewNoteInterval"}

\* The pairs the two register calls name
ConvPairs == {<<"PitchA", "PitchB">>, <<"PitchB", "PitchA">>, <<"PitchB", "PitchC">>,
              <<"PitchAInterval", "PitchBInterval">>}

\* The functions they register for to_type: one as in ConvFuncs, one that
\* leaves the class flag out (as the converters of the tests do) and one
\* that returns an object of the class it should convert from.
AnyConvFuncs(from_type, to_type) ==
    {[out |-> to_type, op |-> "double", keep |-> TRUE],
     [out |-> to_type, op |-> "succ", keep |-> FALSE],
     [out |-> from_type, op |-> "succ", keep |-> TRUE]}

\* The registry after a register call on the empty registry
OneCallRegistries ==
    UNION {{register_converter(EmptyDict, p[1], p[2], f, None, TRUE, TRUE).conv :
               f \in AnyConvFuncs(p[1], p[2])} : p \in ConvPairs}

\* The registry after a second register call, which extends the implicit
\* converters or does not
TwoCallRegistries ==
    UNION {UNION {{register_converter(conv, q[1], q[2], g, None, TRUE, ext).conv :
                      g \in AnyConvFuncs(q[1], q[2]), ext \in BOOLEAN} : q \in ConvPairs} :
           conv \in OneCallRegistries}

\* The links when the derived classes and PitchC are defined without a link
\* call: the derived classes inherit the links of PitchA and PitchAInterval.
PartlyLinkedVectorClass ==
    [c \in PointTypes |->
        IF c \in {"NewNote", "PitchC"} THEN None ELSE LinkedVectorClass[c]]

PartlyLinkedPointClass ==
    [c \in VectorTypes |->
        IF c \in {"NewNoteInterval", "PitchCInterval"} THEN None ELSE LinkedPointClass[c]]

\* x.convert_to(other_type)
Convert(x, other_type) ==
    /\ call' = [op |-> "convert_to", self |-> x, other_type |-> other_type,
                result |-> convert_to(converters, vector_class, point_class, x, other_type),
                err |-> None]
    /\ UNCHANGED <<vector_class, point_class, converters, pre, ncalls, defaults>>

InitConv ==
    /\ \/ vector_class = LinkedVectorClass /\ point_class = LinkedPointClass
       \/ vector_class = PartlyLinkedVectorClass /\ point_class = PartlyLinkedPointClass
    /\ converters \in TwoCallRegistries
    /\ call = NoCall
    /\ pre = [vector_class |-> vector_class, point_class |-> point_class,
              converters |-> converters]
    /\ ncalls = 0
    /\ defaults = TRUE

\* A conversion reads the registry and the links and changes neither, so
\* that the conversions of a behaviour do not depend on each other: a
\* behaviour of the model makes one.
NextConv ==
    /\ call = NoCall
    /\ \E cls \in ConvTypes, other_type \in ConvTypes :
           \E x \in ValuesOf(point_class, cls) : Convert(x, other_type)

SpecConv == InitConv /\ [][NextConv]_vars

IsConvertCall == call.op = "convert_to"

\* Both classes are linked to a pitch class and a pipeline between the two
\* pitch classes is stored.
HasPitchRoute(conv, pc, from_type, to_type) ==
    /\ PointClassOf(pc, from_type) # None
    /\ PointClassOf(pc, to_type) # None
    /\ HasPipeline(conv, PointClassOf(pc, from_type), PointClassOf(pc, to_type))

\* The conversion that was called has no route: no pipeline is stored from
\* the class of the value to other_type and, for an interval, none between
\* the associated pitch classes.
C3_NoRoute ==
    /\ IsConvertCall
    /\ ~HasPipeline(converters, call.self.cls, call.other_type)
    /\ \/ IsPitchCls(call.self.cls)
       \/ /\ IsIntervalCls(call.self.cls)
          /\ IsIntervalCls(call.other_type)
          /\ ~HasPitchRoute(converters, point_class, call.self.cls, call.other_type)

(***************************************************************************)
(* C3, as claimed.  convert_to(T) fails when no route exists: for a pitch  *)
(* whose class has no stored pipeline to T and for an interval that has    *)
(* neither a stored pipeline to T nor one between the associated pitch     *)
(* classes.                                                                *)
(***************************************************************************)
C3_NoRouteFails == C3_NoRoute => IsErr(call.result)

(***************************************************************************)
(* C3, amended.  The same for T other than the class of the value and, for *)
(* an interval, associated pitch classes that are not one and the same     *)
(* class.  The conversion of a pitch to a pitch class T raises             *)
(* NotImplementedError.                                                    *)
(***************************************************************************)
C3_NoRouteToOtherClassFails ==
    (/\ C3_NoRoute
     /\ call.other_type # call.self.cls
     /\ IsIntervalCls(call.self.cls) =>
            \/ PointClassOf(point_class, call.self.cls) = None
            \/ PointClassOf(point_class, call.self.cls)
                   # PointClassOf(point_class, call.other_type))
    => /\ IsErr(call.result)
       /\ (IsPitchCls(call.self.cls) /\ IsPitchCls(call.other_type))
              => call.result.err = "NotImplementedError"

\* PitchA->PitchB and PitchB->PitchC are stored, PitchA->PitchC is not, and
\* an interval of PitchA was converted to the interval class of PitchC.
C3_Witness ==
    /\ C3_NoRoute
    /\ HasPipeline(converters, "PitchA", "PitchB")
    /\ HasPipeline(converters, "PitchB", "PitchC")
    /\ call.self.cls = "PitchAInterval"
    /\ call.other_type = "PitchCInterval"
    /\ PointClassOf(point_class, "PitchCInterval") = "PitchC"
    /\ IsErr(call.result)

\* The conversion that was called has a stored pipeline, and the functions
\* of the pipeline return a value.
C6_Stored ==
    /\ IsConvertCall
    /\ HasPipeline(converters, call.self.cls, call.other_type)
    /\ ~IsErr(RunPipeline(point_class, converters[call.self.cls][call.other_type], 1, call.self))

\* The functions of the stored pipeline applied to the value, left to right
C6_Applied ==
    RunPipeline(point_class, converters[call.self.cls][call.other_type], 1, call.self)

(***************************************************************************)
(* C6, as claimed.  When a pipeline to other_type is stored for the class  *)
(* of the value, convert_to(other_type) applies its functions left to      *)
(* right; it fails if the result is no instance of other_type or its class *)
(* flag differs from the flag of the value, and returns a value with the   *)
(* flag of the source otherwise.                                           *)
(***************************************************************************)
C6_PipelineApplied ==
    C6_Stored =>
        IF ~IsInstance(C6_Applied, call.other_type) \/ C6_Applied.is_class # call.self.is_class
        THEN IsErr(call.result)
        ELSE /\ ~IsErr(call.result)
             /\ call.result.is_class = call.self.is_class
             /\ ~call.self.is_class => call.result = C6_Applied

(***************************************************************************)
(* C6, amended.  The same for other_type different from the class of the   *)
(* value; the failure is a TypeError, and the value returned for a class   *)
(* is the result of the pipeline mapped to its class once more.            *)
(***************************************************************************)
C6_PipelineToOtherClassApplied ==
    (C6_Stored /\ call.other_type # call.self.cls) =>
        IF ~IsInstance(C6_Applied, call.other_type) \/ C6_Applied.is_class # call.self.is_class
        THEN IsErr(call.result) /\ call.result.err = "TypeError"
        ELSE /\ ~IsErr(call.result)
             /\ call.result.is_class = call.self.is_class
             /\ call.result = ToClassIf(point_class, call.self.is_class, C6_Applied)

\* A class value went through a pipeline of two different functions.
C6_Witness ==
    /\ C6_Stored
    /\ call.other_type # call.self.cls
    /\ Len(converters[call.self.cls][call.other_type]) = 2
    /\ converters[call.self.cls][call.other_type][1].op
           # converters[call.self.cls][call.other_type][2].op
    /\ call.self.is_class
    /\ ~IsErr(call.result)

(***************************************************************************)
(* The arithmetic: the operators applied to the objects of the classes.    *)
(***************************************************************************)
\* The classes of the operands
ArithTypes == {"PitchA", "PitchB", "NewNote", "NewTime", "NewBase",
               "PitchAInterval", "PitchBInterval", "NewNoteInterval", "NewDuration",
               "NewBaseVector"}

\* The objects of a class: those of ValuesOf for a pitch or an interval,
\* cls(v) for another point or vector
ObjectsOf(pc, cls) ==
    IF IsPitchCls(cls) \/ IsIntervalCls(cls) THEN ValuesOf(pc, cls)
    ELSE {New(pc, cls, v, None) : v \in WrappedValues}

\* The binary operators between two objects
ArithOps == {"sub", "add"}

\* left - right, left + right
Arith(op, left, right) ==
    /\ call' = [op |-> op, left |-> left, right |-> right,
                result |-> IF op = "sub"
                           THEN Sub(vector_class, point_class, left, right)
                           ELSE Add(vector_class, point_class, left, right),
                err |-> None]
    /\ UNCHANGED <<vector_class, point_class, converters, pre, ncalls, defaults>>

\* left * k ("mul") and k * left ("rmul")
Scale(op, left, k) ==
    /\ call' = [op |-> op, left |-> left, right |-> k,
                result |-> IF op = "mul"
                           THEN Mul(point_class, left, k)
                           ELSE RMul(point_class, k, left),
                err |-> None]
    /\ UNCHANGED <<vector_class, point_class, converters, pre, ncalls, defaults>>

\* left / k, for the numbers k that divide the value of left, and for 0
Divide(left, k) ==
    /\ IF k = 0 THEN TRUE ELSE left.value % (IF k < 0 THEN 0 - k ELSE k) = 0
    /\ call' = [op |-> "truediv", left |-> left, right |-> k,
                result |-> Truediv(converters, vector_class, point_class, left, k),
                err |-> None]
    /\ UNCHANGED <<vector_class, point_class, converters, pre, ncalls, defaults>>

\* left == right
Compare(left, right) ==
    /\ call' = [op |-> "eq", left |-> left, right |-> right,
                result |-> [ok |-> Eq(left, right)], err |-> None]
    /\ UNCHANGED <<vector_class, point_class, converters, pre, ncalls, defaults>>

\* cls(v, is_pitch_class=flag) or cls(v, is_interval_class=flag) for a
\* number v: no flag is inferred from the value
ConstructFromNumber(cls, v, flag) ==
    /\ IsPitchCls(cls) \/ IsIntervalCls(cls)
    /\ call' = [op |-> "new", cls |-> cls, param |-> flag, inferred |-> None,
                value |-> v, result |-> New(point_class, cls, v, flag), err |-> None]
    /\ UNCHANGED <<vector_class, point_class, converters, pre, ncalls, defaults>>

\* cls(x, is_pitch_class=flag) or cls(x, is_interval_class=flag) for an
\* object x of the class: the flag of x is the inferred one
ConstructFromObject(x, flag) ==
    /\ IsPitchCls(x.cls) \/ IsIntervalCls(x.cls)
    /\ call' = [op |-> "new", cls |-> x.cls, param |-> flag, inferred |-> FlagOf(x),
                value |-> x.value,
                result |-> IF IsPitchCls(x.cls)
                           THEN Pitch_from(converters, point_class, x.cls, x, flag)
                           ELSE Interval_from(converters, vector_class, point_class,
                                              x.cls, x, flag),
                err |-> None]
    /\ UNCHANGED <<vector_class, point_class, converters, pre, ncalls, defaults>>

\* x.to_pitch_class() of a pitch, x.to_interval_class() of an interval
ToClass(x) ==
    /\ IsPitchCls(x.cls) \/ IsIntervalCls(x.cls)
    /\ call' = [op |-> IF IsPitchCls(x.cls) THEN "to_pitch_class" ELSE "to_interval_class",
                self |-> x,
                result |-> IF IsPitchCls(x.cls)
                           THEN to_pitch_class(point_class, x)
                           ELSE to_interval_class(point_class, x),
                err |-> None]
    /\ UNCHANGED <<vector_class, point_class, converters, pre, ncalls, defaults>>

\* p1 + (p2 - p1) == p2, for two pitches of one class with the same class flag
RoundTrip(p1, p2) ==
    /\ IsPitchCls(p1.cls)
    /\ p2.cls = p1.cls
    /\ p2.is_class = p1.is_class
    /\ \E diff \in {Sub(vector_class, point_class, p2, p1)} :
         \E sum \in {Then(diff, LAMBDA d : Add(vector_class, point_class, p1, d))} :
           call' = [op |-> "round_trip", left |-> p1, right |-> p2,
                    diff |-> diff, sum |-> sum,
                    result |-> Then(sum, LAMBDA s : [ok |-> Eq(s, p2)]),
                    err |-> None]
    /\ UNCHANGED <<vector_class, point_class, converters, pre, ncalls, defaults>>

\* The registry is empty, as it is for the classes a test defines, or holds
\* a chain of converters.
InitArith ==
    /\ \/ vector_class = LinkedVectorClass /\ point_class = LinkedPointClass
       \/ vector_class = PartlyLinkedVectorClass /\ point_class = PartlyLinkedPointClass
    /\ converters \in {EmptyDict, ChainRegistry}
    /\ call = NoCall
    /\ pre = [vector_class |-> vector_class, point_class |-> point_class,
              converters |-> converters]
    /\ ncalls = 0
    /\ defaults = TRUE

\* An operator reads the links and changes nothing, so that the operations
\* of a behaviour do not depend on each other: a behaviour of the model
\* makes one.
NextArith ==
    /\ call = NoCall
    /\ \E cls \in ArithTypes :
         \E left \in ObjectsOf(point_class, cls) :
           \/ \E op \in ArithOps, other \in ArithTypes :
                \E right \in ObjectsOf(point_class, other) : Arith(op, left, right)
           \/ \E other \in ArithTypes :
                \E right \in ObjectsOf(point_class, other) : Compare(left, right)
           \/ \E op \in {"mul", "rmul"}, k \in WrappedValues : Scale(op, left, k)
           \/ \E k \in WrappedValues : Divide(left, k)
           \/ \E v \in WrappedValues, flag \in Flags : ConstructFromNumber(cls, v, flag)
           \/ \E flag \in Flags : ConstructFromObject(left, flag)
           \/ ToClass(left)
           \/ \E right \in ObjectsOf(point_class, cls) : RoundTrip(left, right)
           \/ \E other_type \in ArithTypes :
                (IsPitchCls(cls) \/ IsIntervalCls(cls)) /\ Convert(left, other_type)

SpecArith == InitArith /\ [][NextArith]_vars

\* P and V are linked to each other.
LinkedPair(P, V) ==
    /\ VectorClassOf(vector_class, P) = V
    /\ PointClassOf(point_class, V) = P

\* The operation that was called has the operator op, a left operand of the
\* class L and a right operand of the class R, neither of them a pitch class
\* or an interval class.
C10_Case(op, L, R) ==
    /\ call.op = op
    /\ call.left.cls = L
    /\ call.right.cls = R
    /\ ~call.left.is_class
    /\ ~call.right.is_class

(***************************************************************************)
(* C10.  For a linked pair (P, V), wrapped values a and b and a number k:  *)
(* P(a) - P(b) is V(a - b), P(a) + V(b) is P(a + b), P(a) - V(b) is        *)
(* P(a - b), V(a) + V(b) is V(a + b), V(a) - V(b) is V(a - b), and V(a) * k*)
(* and k * V(a) are V(k * a); each result is an object of exactly the      *)
(* class named.                                                            *)
(***************************************************************************)
C10_LinkedArithmetic ==
    \A P \in ArithTypes, V \in ArithTypes :
        LinkedPair(P, V) =>
            /\ C10_Case("sub", P, P)
                   => call.result = Obj(V, call.left.value - call.right.value, FALSE)
            /\ C10_Case("add", P, V)
                   => call.result = Obj(P, call.left.value + call.right.value, FALSE)
            /\ C10_Case("sub", P, V)
                   => call.result = Obj(P, call.left.value - call.right.value, FALSE)
            /\ C10_Case("add", V, V)
                   => call.result = Obj(V, call.left.value + call.right.value, FALSE)
            /\ C10_Case("sub", V, V)
                   => call.result = Obj(V, call.left.value - call.right.value, FALSE)
            /\ (call.op \in {"mul", "rmul"} /\ call.left.cls = V /\ ~call.left.is_class)
                   => call.result = Obj(V, call.right * call.left.value, FALSE)

\* Two different times were subtracted and the result is a duration.
C10_Witness ==
    /\ LinkedPair("NewTime", "NewDuration")
    /\ C10_Case("sub", "NewTime", "NewTime")
    /\ call.left.value # call.right.value
    /\ call.result = Obj("NewDuration", call.left.value - call.right.value, FALSE)

IsLinkCall == call.op \in LinkMethods

\* The base class a link method requires of the class it decorates
\* (lines 39, 343 and 597).
MethodVectorBase(method) ==
    CASE method = "link_vector_class" -> "Vector"
      [] method = "link_interval_class" -> "Interval"
      [] method = "link_duration_class" -> "Duration"

\* The last call was a link call on a class of the kind the method accepts.
IsAcceptedLinkCall == IsLinkCall /\ InMro(MethodVectorBase(call.op), call.vector)

LinksUnchanged == vector_class = pre.vector_class /\ point_class = pre.point_class

(***************************************************************************)
(* C7.  A link call that leaves both overwrite flags unspecified raises    *)
(* AttributeError whenever the point class already has a vector class or   *)
(* the vector class already has a point class, and the failed call changes *)
(* no association.                                                         *)
(***************************************************************************)
C7_RelinkWithoutFlagsFails ==
    (/\ IsAcceptedLinkCall
     /\ call.overwrite_point_class = None
     /\ call.overwrite_vector_class = None
     /\ \/ VectorClassOf(pre.vector_class, call.point) # None
        \/ PointClassOf(pre.point_class, call.vector) # None)
    => (call.err = "AttributeError" /\ LinksUnchanged)

\* A call failed only because the vector class already had a point class.
C7_Witness ==
    /\ IsAcceptedLinkCall
    /\ call.overwrite_point_class = None
    /\ call.overwrite_vector_class = None
    /\ VectorClassOf(pre.vector_class, call.point) = None
    /\ PointClassOf(pre.point_class, call.vector) # None
    /\ call.err = "AttributeError"

(***************************************************************************)
(* C8.  Linking an already linked point class P to a vector class V' that  *)
(* has no point class, with overwrite_vector_class (overwrite_interval_    *)
(* class, overwrite_duration_class) True and the other flag unspecified,   *)
(* succeeds; afterwards P._vector_class is V' and V'._point_class is P.    *)
(***************************************************************************)
C8_ForcedRelink ==
    (/\ IsAcceptedLinkCall
     /\ call.overwrite_vector_class = "True"
     /\ call.overwrite_point_class = None
     /\ VectorClassOf(pre.vector_class, call.point) # None
     /\ PointClassOf(pre.point_class, call.vector) = None)
    => (/\ call.err = None
        /\ VectorClassOf(vector_class, call.point) = call.vector
        /\ PointClassOf(point_class, call.vector) = call.point)

\* An interval class took the place of another one through link_interval_class.
C8_Witness ==
    /\ call.op = "link_interval_class"
    /\ call.overwrite_vector_class = "True"
    /\ call.overwrite_point_class = None
    /\ VectorClassOf(pre.vector_class, call.point) \notin {None, call.vector}
    /\ PointClassOf(pre.point_class, call.vector) = None
    /\ call.err = None

\* P._vector_class is V exactly when V._point_class is P.
Bidirectional(vc, pc) ==
    \A p \in PointTypes, v \in VectorTypes :
        (VectorClassOf(vc, p) = v) <=> (PointClassOf(pc, v) = p)

\* The same of the attributes the classes set themselves, inherited ones left out.
OwnBidirectional(vc, pc) ==
    \A p \in PointTypes, v \in VectorTypes : (vc[p] = v) <=> (pc[v] = p)

(***************************************************************************)
(* C9, as claimed.  After any sequence of link calls, forced overwrites    *)
(* and False flags included, a point class P has vector class V if and     *)
(* only if V has point class P.                                            *)
(***************************************************************************)
C9_AlwaysBidirectional == Bidirectional(vector_class, point_class)

(***************************************************************************)
(* C9, amended.  After any sequence of link calls that all leave both      *)
(* overwrite flags unspecified, the attributes the classes set themselves  *)
(* are bidirectional and one-to-one: P set V as its vector class if and    *)
(* only if V set P as its point class.                                     *)
(***************************************************************************)
C9_DefaultLinksBidirectional ==
    defaults => OwnBidirectional(vector_class, point_class)

\* Two pairs are linked by default calls.
C9_Witness ==
    /\ defaults
    /\ ncalls = 2
    /\ \E p1, p2 \in PointTypes :
         p1 # p2 /\ vector_class[p1] # None /\ vector_class[p2] # None

(***************************************************************************)
(* C11.  For a linked pair (P, V) and every value of the operands, P + P,  *)
(* V + P and V - P raise TypeError and return nothing.                     *)
(***************************************************************************)
C11_Case(op, L, R) ==
    /\ call.op = op
    /\ IsInstance(call.left, L)
    /\ IsInstance(call.right, R)

C11_MixedOperandsRaise ==
    \A P \in ArithTypes, V \in ArithTypes :
        (LinkedPair(P, V)
            /\ (C11_Case("add", P, P) \/ C11_Case("add", V, P) \/ C11_Case("sub", V, P)))
        => call.result = Raise("TypeError")

\* Two pitches were added.
C11_Witness ==
    /\ LinkedPair("PitchA", "PitchAInterval")
    /\ call.op = "add"
    /\ call.left.cls = "PitchA"
    /\ call.right.cls = "PitchA"
    /\ call.result = Raise("TypeError")

(***************************************************************************)
(* C12.  For every vector v of a plain vector class, a duration class or   *)
(* an interval class and every number s other than 0, v / s returns an     *)
(* object of the class of v whose value is the number v.value * (1 / s),   *)
(* not another vector.                                                     *)
(***************************************************************************)
C12_IsDivision ==
    /\ call.op = "truediv"
    /\ IsVectorCls(call.left.cls)
    /\ call.right # 0

C12_DivisionScales ==
    C12_IsDivision =>
        /\ ~IsErr(call.result)
        /\ ~IsNested(call.result)
        /\ call.result.cls = call.left.cls
        /\ call.result.value = Quotient(call.left.value, call.right)

C13_Related == InMro(call.left.cls, call.right.cls) \/ InMro(call.right.cls, call.left.cls)

C14_Contradiction ==
    /\ call.param # None
    /\ call.inferred # None
    /\ call.param # call.inferred

C14_Expected ==
    IF call.param = None /\ call.inferred = None THEN "False"
    ELSE IF call.param = None THEN call.inferred
    ELSE call.param

C15_Objects ==
    IF call.op \in {"add", "sub"} THEN {call.left, call.right, call.result}
    ELSE IF call.op = "new" THEN {call.result}
    ELSE IF call.op \in {"to_pitch_class", "convert_to"} THEN {call.self, call.result}
    ELSE {}

C15_PitchClasses ==
    {x \in C15_Objects : IF IsErr(x) THEN FALSE ELSE IsPitchCls(x.cls) /\ x.is_class}

C15_StoredFromOrigin ==
    \A x \in C15_PitchClasses :
        /\ PitchClassOrigin(x.cls) <= x.value
        /\ x.value < PitchClassOrigin(x.cls) + PitchClassPeriod(x.cls)

(***************************************************************************)
(* C15, as the code has it.  Every pitch whose is_pitch_class is true,     *)
(* however it was made, stores a value v with 0 <= v < period for the      *)
(* period of its class.                                                    *)
(***************************************************************************)
C15_StoredFromZero ==
    \A x \in C15_PitchClasses :
        /\ 0 <= x.value
        /\ x.value < PitchClassPeriod(x.cls)

\* to_pitch_class made a pitch class of a class whose origin is not 0, and
\* the value it stores is below the origin.
C15_Witness ==
    /\ call.op = "to_pitch_class"
    /\ call.self.cls = "PitchB"
    /\ ~call.self.is_class
    /\ ~IsErr(call.result)
    /\ call.result.is_class
    /\ call.result.value < PitchClassOrigin("PitchB")

(***************************************************************************)
(* The pitch classes of pitches: to_pitch_class of the pitches of the      *)
(* model's classes and of 12-tone pitches made from a name or a number.    *)
(***************************************************************************)
MaxModifiers == 2

\* "", "#", "b", "##", "bb", ...
Modifiers ==
    {[i \in 1..n |-> m] : n \in 0..MaxModifiers, m \in {"#", "b"}}

\* The octaves of the names of the test (lines 141-145) and the one below
Octaves == 3..5

Names ==
    [class : {"C", "D", "E", "F", "G", "A", "B"},
     modifiers : Modifiers,
     octave : {<<>>} \cup {<<n>> : n \in Octaves}]

\* The semitone numbers of the test (line 146) and those of the octave below
MidiNumbers == 48..84

\* The classes whose pitches are mapped
ClassTypes == {"PitchA", "PitchB", "PitchC", "PitchD", "NewNote",
               "PitchAInterval", "PitchCInterval", "PitchDInterval"}

\* MIDIPitch(name, is_pitch_class=flag).to_pitch_class()
PitchClassOfName(name, flag) ==
    /\ \E p \in {MIDIPitch_from_name(converters, point_class, name, flag)} :
           call' = [op |-> "name", name |-> name, param |-> flag, self |-> p,
                    result |-> Then(p, LAMBDA q : to_pitch_class(point_class, q)),
                    err |-> None]
    /\ UNCHANGED <<vector_class, point_class, converters, pre, ncalls, defaults>>

\* MIDIPitch(v, is_pitch_class=flag).to_pitch_class()
PitchClassOfNumber(v, flag) ==
    /\ call' = [op |-> "number", param |-> flag,
                self |-> New(point_class, "MIDIPitch", v, flag),
                result |-> Then(New(point_class, "MIDIPitch", v, flag),
                                LAMBDA p : to_pitch_class(point_class, p)),
                err |-> None]
    /\ UNCHANGED <<vector_class, point_class, converters, pre, ncalls, defaults>>

\* The raw values of the 12-tone intervals: a period to either side
IntervalNumbers == (0 - 12)..12

\* The 12-tone pitches and intervals, pitch classes and interval classes
\* among them
MidiObjects ==
    {New(point_class, "MIDIPitch", v, f) : v \in MidiNumbers, f \in {"False", "True"}}
        \cup {New(point_class, "MIDIPitchInterval", v, f) :
                  v \in IntervalNumbers, f \in {"False", "True"}}

\* MIDIPitchInterval(v, is_interval_class=True) == MIDIPitchInterval(w, is_interval_class=True)
IntervalClassesOfNumbers(v, w) ==
    /\ call' = [op |-> "interval_classes", raw_left |-> v, raw_right |-> w,
                left |-> New(point_class, "MIDIPitchInterval", v, "True"),
                right |-> New(point_class, "MIDIPitchInterval", w, "True"),
                result |-> [ok |-> Eq(New(point_class, "MIDIPitchInterval", v, "True"),
                                      New(point_class, "MIDIPitchInterval", w, "True"))],
                err |-> None]
    /\ UNCHANGED <<vector_class, point_class, converters, pre, ncalls, defaults>>

\* x.to_pitch_class().to_pitch_class() of a pitch and
\* x.to_interval_class().to_interval_class() of an interval
ToClassTwice(x) ==
    /\ call' = [op |-> "to_class_twice", self |-> x,
                once |-> IF IsPitchCls(x.cls) THEN to_pitch_class(point_class, x)
                         ELSE to_interval_class(point_class, x),
                result |-> IF IsPitchCls(x.cls)
                           THEN Then(to_pitch_class(point_class, x),
                                     LAMBDA y : to_pitch_class(point_class, y))
                           ELSE Then(to_interval_class(point_class, x),
                                     LAMBDA y : to_interval_class(point_class, y)),
                err |-> None]
    /\ UNCHANGED <<vector_class, point_class, converters, pre, ncalls, defaults>>

\* The characters of the strings that are tried as names, and their length
NameChars == {"C", "B", "c", "#", "b", "5", "-"}

MaxNameLen == 4

\* The string of a name with the octave n in 0..9
Spelling(name) ==
    <<name.class>> \o name.modifiers
        \o (IF name.octave = <<>> THEN <<>> ELSE <<DigitChars[name.octave[1] + 1]>>)

\* The strings of the names, and every string of the characters
Strings ==
    {Spelling(name) : name \in Names}
        \cup UNION {[1..n -> NameChars] : n \in 0..MaxNameLen}

\* MIDIPitch(value) for a string
PitchOfString(value) ==
    /\ call' = [op |-> "string", value |-> value,
                result |-> MIDIPitch_from_str(converters, point_class, value, None),
                err |-> None]
    /\ UNCHANGED <<vector_class, point_class, converters, pre, ncalls, defaults>>

\* MIDIPitch(left) == MIDIPitch(right) for the strings of two names
PitchesOfStrings(left, right) ==
    /\ \E l \in {MIDIPitch_from_str(converters, point_class, left, None)} :
         \E r \in {MIDIPitch_from_str(converters, point_class, right, None)} :
           call' = [op |-> "strings_eq", left_value |-> left, right_value |-> right,
                    left |-> l, right |-> r,
                    result |-> Then(l, LAMBDA x : Then(r, LAMBDA y : [ok |-> Eq(x, y)])),
                    err |-> None]
    /\ UNCHANGED <<vector_class, point_class, converters, pre, ncalls, defaults>>

\* The links after the import: those of the model's classes and
\* @MIDIPitch.link_interval_class() of line 811
ImportVectorClass ==
    [c \in PointTypes \cup {"MIDIPitch"} |->
        IF c = "MIDIPitch" THEN "MIDIPitchInterval" ELSE LinkedVectorClass[c]]

ImportPointClass ==
    [c \in VectorTypes \cup {"MIDIPitchInterval"} |->
        IF c = "MIDIPitchInterval" THEN "MIDIPitch" ELSE LinkedPointClass[c]]

InitName ==
    /\ vector_class = ImportVectorClass
    /\ point_class = ImportPointClass
    /\ converters = ImportRegistry
    /\ call = NoCall
    /\ pre = [vector_class |-> vector_class, point_class |-> point_class,
              converters |-> converters]
    /\ ncalls = 0
    /\ defaults = TRUE

\* A behaviour makes one call, as those of the arithmetic do.
NextName ==
    /\ call = NoCall
    /\ \/ \E name \in Names, flag \in Flags : PitchClassOfName(name, flag)
       \/ \E v \in MidiNumbers, flag \in Flags : PitchClassOfNumber(v, flag)
       \/ \E cls \in ClassTypes : \E x \in ObjectsOf(point_class, cls) : ToClass(x)
       \/ \E x \in MidiObjects : ToClass(x)
       \/ \E cls \in ClassTypes : \E x \in ObjectsOf(point_class, cls) : ToClassTwice(x)
       \/ \E x \in MidiObjects : ToClassTwice(x)
       \/ \E op \in ArithOps, left \in MidiObjects, right \in MidiObjects :
              Arith(op, left, right)
       \/ \E v \in IntervalNumbers, w \in IntervalNumbers : IntervalClassesOfNumbers(v, w)
       \/ \E value \in Strings : PitchOfString(value)
       \/ \E left \in Names, right \in Names :
              /\ left.octave # <<>>
              /\ right.octave # <<>>
              /\ PitchesOfStrings(Spelling(left), Spelling(right))

SpecName == InitName /\ [][NextName]_vars

(***************************************************************************)
(* C16.  to_pitch_class of a pitch that stores the value v, of a class     *)
(* with the origin o and the period p, returns a pitch class of that class *)
(* that stores (v - o) mod p.  For the 12-tone class (origin 60, period    *)
(* 12) the pitch class of a pitch with the semitone number v stores        *)
(* v mod 12, whether the pitch was made from a name with sharps, a name    *)
(* with flats or the number.                                               *)
(***************************************************************************)
\* The semitone of a letter and the semitone number a name stands for
C16_LetterSemitone(class) ==
    CASE class = "C" -> 0
      [] class = "D" -> 2
      [] class = "E" -> 4
      [] class = "F" -> 5
      [] class = "G" -> 7
      [] class = "A" -> 9
      [] class = "B" -> 11

C16_Semitone(name) ==
    12 * (name.octave[1] + 1) + C16_LetterSemitone(name.class)
        + (IF \E i \in 1..Len(name.modifiers) : name.modifiers[i] = "#"
           THEN Len(name.modifiers) ELSE 0 - Len(name.modifiers))

C16_Mapped ==
    /\ ~IsErr(call.result)
    /\ call.result.cls = call.self.cls
    /\ call.result.is_class
    /\ call.result.value
           = (call.self.value - PitchClassOrigin(call.self.cls))
                 % PitchClassPeriod(call.self.cls)

C16_PitchClassValue ==
    /\ (call.op = "to_pitch_class" /\ ~PeriodIsNone(call.self.cls)) => C16_Mapped
    /\ (call.op \in {"name", "number"} /\ ~IsErr(call.self))
           => C16_Mapped /\ call.result.value = call.self.value % 12
    /\ (call.op = "name" /\ ~IsErr(call.self) /\ call.name.octave # <<>>)
           => /\ call.self = Obj("MIDIPitch", C16_Semitone(call.name), FALSE)
              /\ call.result.value = C16_Semitone(call.name) % 12

\* The pitch class of a pitch made from a name with a flat is that of the
\* number the name stands for.
C16_Witness ==
    /\ call.op = "name"
    /\ call.name = [class |-> "D", modifiers |-> <<"b">>, octave |-> <<5>>]
    /\ call.self = Obj("MIDIPitch", 73, FALSE)
    /\ call.result = Obj("MIDIPitch", 1, TRUE)

(***************************************************************************)
(* C17.  Every interval whose is_interval_class is true stores the value v *)
(* of its residue class modulo the period with -period/2 < v <= period/2,  *)
(* so that two interval classes made from numbers that are congruent       *)
(* modulo the period compare equal; with the period 12, -7 and 5 both      *)
(* store 5, -10 and 2 both store 2, and 6 stores 6.                        *)
(***************************************************************************)
\* The objects of the call that was made
C17_Objects ==
    IF call.op \in {"add", "sub"} THEN {call.left, call.right, call.result}
    ELSE IF call.op = "interval_classes" THEN {call.left, call.right}
    ELSE IF call.op = "to_interval_class" THEN {call.self, call.result}
    ELSE {}

C17_IntervalClasses ==
    {x \in C17_Objects : IF IsErr(x) THEN FALSE ELSE IsIntervalCls(x.cls) /\ x.is_class}

C17_Period(x) == PitchClassPeriod(PointClassOf(point_class, x.cls))

C17_Stores(raw, stored) ==
    \A side \in {"left", "right"} :
        call["raw_" \o side] = raw => call[side].value = stored

C17_CenteredIntervalClass ==
    /\ \A x \in C17_IntervalClasses :
           /\ 0 - C17_Period(x) < 2 * x.value
           /\ 2 * x.value <= C17_Period(x)
    /\ call.op = "to_interval_class" /\ ~IsErr(call.result)
           => (call.result.value - call.self.value) % C17_Period(call.self) = 0
    /\ call.op = "interval_classes"
           => /\ (call.left.value - call.raw_left) % 12 = 0
              /\ (call.right.value - call.raw_right) % 12 = 0
              /\ (call.raw_left - call.raw_right) % 12 = 0 => call.result.ok
              /\ C17_Stores(0 - 7, 5) /\ C17_Stores(5, 5)
              /\ C17_Stores(0 - 10, 2) /\ C17_Stores(2, 2)
              /\ C17_Stores(6, 6)

\* The interval classes of -7 and of 5 were compared and are equal.
C17_Witness ==
    /\ call.op = "interval_classes"
    /\ call.raw_left = 0 - 7
    /\ call.raw_right = 5
    /\ call.left = Obj("MIDIPitchInterval", 5, TRUE)
    /\ call.result.ok

(***************************************************************************)
(* C18.  For a pitch x of a class that defines an origin and a period,     *)
(* whatever the origin, x.to_pitch_class().to_pitch_class() equals         *)
(* x.to_pitch_class(), and for an interval i of its interval class         *)
(* i.to_interval_class().to_interval_class() equals i.to_interval_class(). *)
(***************************************************************************)
C18_ToClassIdempotent ==
    (call.op = "to_class_twice" /\ ~IsErr(call.once))
        => /\ ~IsErr(call.result)
           /\ Eq(call.result, call.once)

(***************************************************************************)
(* C19.  Arithmetic between a class and a non-class value fails with       *)
(* TypeError: pitch - pitch, pitch + interval, pitch - interval,           *)
(* interval + interval and interval - interval, for a pitch class linked   *)
(* to an interval class and operands of these classes, raise TypeError     *)
(* whenever exactly one operand has its class flag set.                    *)
(***************************************************************************)
\* The call is one of the five operations on operands that fit each other:
\* two pitches of a class, a pitch and an interval of its interval class,
\* or two intervals of a class.
C19_FittingOperands ==
    /\ call.op \in {"add", "sub"}
    /\ \/ /\ call.op = "sub"
          /\ IsPitchCls(call.left.cls)
          /\ VectorClassOf(vector_class, call.left.cls) # None
          /\ IsInstance(call.right, call.left.cls)
       \/ /\ IsPitchCls(call.left.cls)
          /\ VectorClassOf(vector_class, call.left.cls) # None
          /\ IsIntervalCls(call.right.cls)
          /\ IsInstance(call.right, VectorClassOf(vector_class, call.left.cls))
       \/ /\ IsIntervalCls(call.left.cls)
          /\ IsInstance(call.right, call.left.cls)

C19_MixedClassRaises ==
    (C19_FittingOperands /\ call.left.is_class # call.right.is_class)
        => call.result = Raise("TypeError")

\* A pitch was subtracted from a pitch class of its class.
C19_Witness ==
    /\ call.op = "sub"
    /\ call.left.cls = "PitchB"
    /\ call.right.cls = "PitchB"
    /\ call.left.is_class
    /\ ~call.right.is_class
    /\ call.result = Raise("TypeError")

(***************************************************************************)
(* C20.  Arithmetic on operands with equal class flags keeps the flag: the *)
(* difference of two pitches is an interval with that flag; pitch +        *)
(* interval and pitch - interval are pitches with it; interval + interval, *)
(* interval - interval, interval * number and number * interval are        *)
(* intervals with it.  A result with the flag set stores a value of the    *)
(* range of its class mapping: 0 <= v < period for a pitch class,          *)
(* -period/2 < v <= period/2 for an interval class.                        *)
(***************************************************************************)
C20_Normalized(x) ==
    IF ~x.is_class THEN TRUE
    ELSE IF IsPitchCls(x.cls)
    THEN 0 <= x.value /\ x.value < PitchClassPeriod(x.cls)
    ELSE /\ 0 - PitchClassPeriod(PointClassOf(point_class, x.cls)) < 2 * x.value
         /\ 2 * x.value <= PitchClassPeriod(PointClassOf(point_class, x.cls))

\* The result is an object of the class cls with the flag of the left
\* operand.
C20_Keeps(cls) ==
    /\ ~IsErr(call.result)
    /\ call.result.cls = cls
    /\ call.result.is_class = call.left.is_class
    /\ C20_Normalized(call.result)

C20_ClassFlagPreserved ==
    /\ (C19_FittingOperands /\ call.left.is_class = call.right.is_class)
           => IF IsPitchCls(call.left.cls) /\ IsPitchCls(call.right.cls)
              THEN C20_Keeps(VectorClassOf(vector_class, call.left.cls))
              ELSE C20_Keeps(call.left.cls)
    /\ (call.op \in {"mul", "rmul"} /\ IsIntervalCls(call.left.cls))
           => C20_Keeps(call.left.cls)

\* Two pitch classes were subtracted and the result is an interval class
\* whose value was mapped to the negative side.
C20_Witness ==
    /\ call.op = "sub"
    /\ call.left.cls = "PitchA"
    /\ call.right.cls = "PitchA"
    /\ call.left.is_class
    /\ call.right.is_class
    /\ call.result = Obj("PitchAInterval", 0 - 1, TRUE)
    /\ call.left.value - call.right.value # 0 - 1

(***************************************************************************)
(* C21.  For two pitches p1 and p2 of one class that is linked to an       *)
(* interval class, both plain pitches or both pitch classes,               *)
(* p1 + (p2 - p1) is made and equals p2.                                   *)
(***************************************************************************)
C21_RoundTrip ==
    (call.op = "round_trip" /\ ~IsErr(call.diff))
        => /\ ~IsErr(call.result)
           /\ call.result.ok

\* The round trip of two plain pitches returns the second one.
C21_PlainRoundTrip ==
    (call.op = "round_trip" /\ ~IsErr(call.diff) /\ ~call.left.is_class)
        => /\ ~IsErr(call.result)
           /\ call.result.ok

(***************************************************************************)
(* C22.  A string of the 12-tone pitch type that is a letter A-G, then     *)
(* sharps only or flats only, then an octave number, makes the plain pitch *)
(* with the semitone number 12 * (octave + 1) + base(letter) + sharps -    *)
(* flats; two such strings with the same number make equal pitches; a      *)
(* string that is not a letter, sharps or flats and an optional octave     *)
(* number raises ValueError.                                               *)
(***************************************************************************)
C22_Base(letter) ==
    CASE letter = "C" -> 0
      [] letter = "D" -> 2
      [] letter = "E" -> 4
      [] letter = "F" -> 5
      [] letter = "G" -> 7
      [] letter = "A" -> 9
      [] letter = "B" -> 11

C22_Count(s, c) == Cardinality({i \in 1..Len(s) : s[i] = c})

\* The positions of s that hold digits, and the number the digits write
C22_DigitPositions(s) == {i \in 1..Len(s) : s[i] \in {"0", "1", "2", "3", "4", "5", "6", "7", "8", "9"}}

RECURSIVE C22_Power10(_)
C22_Power10(n) == IF n = 0 THEN 1 ELSE 10 * C22_Power10(n - 1)

RECURSIVE C22_Sum(_, _)
C22_Sum(s, positions) ==
    IF positions = {} THEN 0
    ELSE LET i == CHOOSE j \in positions : TRUE
         IN (CHOOSE d \in 0..9 : DigitChars[d + 1] = s[i]) * C22_Power10(Len(s) - i)
                + C22_Sum(s, positions \ {i})

C22_Octave(s) ==
    IF C22_Count(s, "-") = 1 THEN 0 - C22_Sum(s, C22_DigitPositions(s))
    ELSE C22_Sum(s, C22_DigitPositions(s))

\* s is a letter, then m sharps or m flats, then an optional minus sign and
\* the digits
C22_HasForm(s, m, minus) ==
    /\ Len(s) >= 1 + m + minus
    /\ s[1] \in {"A", "B", "C", "D", "E", "F", "G"}
    /\ \/ \A i \in 2..(1 + m) : s[i] = "#"
       \/ \A i \in 2..(1 + m) : s[i] = "b"
    /\ minus = 1 => (s[2 + m] = "-" /\ Len(s) >= 3 + m)
    /\ C22_DigitPositions(s) = (2 + m + minus)..Len(s)

C22_IsName(s) == \E m \in 0..Len(s), minus \in {0, 1} : C22_HasForm(s, m, minus)

\* as C22_IsName, with at least one digit
C22_HasOctave(s) == C22_IsName(s) /\ C22_DigitPositions(s) # {}

C22_Number(s) ==
    12 * (C22_Octave(s) + 1) + C22_Base(s[1]) + C22_Count(s, "#") - C22_Count(s, "b")

C22_NamedSemitone ==
    /\ (call.op = "string" /\ C22_HasOctave(call.value))
           => call.result = Obj("MIDIPitch", C22_Number(call.value), FALSE)
    /\ (call.op = "string" /\ ~C22_IsName(call.value))
           => IsErr(call.result) /\ call.result.err = "ValueError"
    /\ call.op = "strings_eq"
           => /\ call.left = Obj("MIDIPitch", C22_Number(call.left_value), FALSE)
              /\ call.right = Obj("MIDIPitch", C22_Number(call.right_value), FALSE)
              /\ ~IsErr(call.result)
              /\ call.result.ok = (C22_Number(call.left_value) = C22_Number(call.right_value))

\* "Db5" and "C#5" were compared: both are the pitch 73 and they are equal.
C22_Witness ==
    /\ call.op = "strings_eq"
    /\ call.left_value = <<"D", "b", "5">>
    /\ call.right_value = <<"C", "#", "5">>
    /\ call.left.value = 73
    /\ call.result.ok

\* "B#b" was tried and raised.
C22_WitnessMalformed ==
    /\ call.op = "string"
    /\ call.value = <<"B", "#", "b">>
    /\ IsErr(call.result)

(***************************************************************************)
(* util.prange (lines 63-79), a generator.  A Python int is an object of   *)
(* the class "int"; the generator is the record call, which holds its      *)
(* local names, where it stands, and what it has yielded so far.           *)
(***************************************************************************)
PyInt(n) == Obj("int", n, FALSE)

IsInt(x) == x.cls = "int"

\* x - y and x + y of prange: of two ints, or of two objects; an int and an
\* object have no common operator
Minus(vc, pc, x, y) ==
    IF IsInt(x) /\ IsInt(y) THEN PyInt(x.value - y.value)
    ELSE IF IsInt(x) \/ IsInt(y) THEN Raise("TypeError")
    ELSE Sub(vc, pc, x, y)

Plus(vc, pc, x, y) ==
    IF IsInt(x) /\ IsInt(y) THEN PyInt(x.value + y.value)
    ELSE IF IsInt(x) \/ IsInt(y) THEN Raise("TypeError")
    ELSE Add(vc, pc, x, y)

\* x < y: __lt__ of Point and Vector (lines 102-106, 170-174); when the one
\* operand declines Python asks the other, and raises when both decline
Lt(x, y) ==
    IF IsInstance(y, x.cls) \/ IsInstance(x, y.cls) THEN [ok |-> x.value < y.value]
    ELSE Raise("TypeError")

\* x > y, which functools.total_ordering (lines 7, 113) derives for the two
\* classes from __lt__ and __eq__
Gt(x, y) ==
    IF IsInstance(y, x.cls) \/ IsInstance(x, y.cls) THEN [ok |-> x.value > y.value]
    ELSE Raise("TypeError")

\* Lines 64-68: the step that was given, or the unit step
prange_step(vc, pc, start, stop, step) ==
    IF step # <<>> THEN step[1]
    ELSE Then(Minus(vc, pc, stop, start), LAMBDA d :
           IF IsVectorCls(d.cls) THEN New(pc, d.cls, 1, FlagOf(start))
           ELSE PyInt(1))

\* Line 69: negative_step = step < (start - start)
prange_negative_step(vc, pc, start, step) ==
    Then(Minus(vc, pc, start, start), LAMBDA zero : Lt(step, zero))

\* Lines 72-77: "break" if the loop ends with this value of running, "yield"
\* if it goes on, or the exception of a comparison
prange_test_v1(running, stop, negative_step, endpoint) ==
    \* a plausible slip: the loop ends at stop whether the endpoint is asked for or not
    IF Eq(running, stop) THEN [ok |-> "break"]
    ELSE IF negative_step
    THEN Then(Lt(running, stop), LAMBDA lt : [ok |-> IF lt.ok THEN "break" ELSE "yield"])
    ELSE Then(Gt(running, stop), LAMBDA gt : [ok |-> IF gt.ok THEN "break" ELSE "yield"])

prange_test(running, stop, negative_step, endpoint) ==
    IF ~endpoint /\ Eq(running, stop) THEN [ok |-> "break"]
    ELSE IF negative_step
    THEN Then(Lt(running, stop), LAMBDA lt : [ok |-> IF lt.ok THEN "break" ELSE "yield"])
    ELSE Then(Gt(running, stop), LAMBDA gt : [ok |-> IF gt.ok THEN "break" ELSE "yield"])

MaxRange == 3

\* The values that are yielded are recorded up to this many
MaxYield == 2 * MaxRange + 2

\* prange(start, stop, step, endpoint=endpoint); step is <<>> for None.  A
\* generator runs no line before it is asked for a value.
Prange(start, stop, step, endpoint) ==
    /\ call' = [op |-> "prange", start |-> start, stop |-> stop, given |-> step,
                endpoint |-> endpoint, at |-> "start", yielded |-> <<>>,
                err |-> None]
    /\ ncalls' = ncalls + 1
    /\ UNCHANGED <<vector_class, point_class, converters, pre, defaults>>

\* The generator after the loop test of the value running
Tested(gen, step, negative_step, running) ==
    Bind(prange_test(running, gen.stop, negative_step, gen.endpoint), LAMBDA test :
      IF IsErr(test) THEN [gen EXCEPT !.at = "raised", !.err = test.err]
      ELSE IF test.ok = "break" THEN [gen EXCEPT !.at = "returned"]
      ELSE [op |-> "prange", start |-> gen.start, stop |-> gen.stop, given |-> gen.given,
            endpoint |-> gen.endpoint, at |-> "yield",
            yielded |-> IF Len(gen.yielded) < MaxYield
                        THEN Append(gen.yielded, running) ELSE gen.yielded,
            step |-> step, negative_step |-> negative_step, running |-> running,
            err |-> None])

\* next(generator): the generator runs to its next yield, to its end, or to
\* an exception
Resume ==
    /\ call # NoCall
    /\ call.op = "prange"
    /\ call.at \in {"start", "yield"}
    /\ call' =
         IF call.at = "start"
         THEN Bind(prange_step(vector_class, point_class, call.start, call.stop, call.given),
                LAMBDA step :
                  IF IsErr(step) THEN [call EXCEPT !.at = "raised", !.err = step.err]
                  ELSE Bind(prange_negative_step(vector_class, point_class, call.start, step),
                         LAMBDA negative_step :
                           IF IsErr(negative_step)
                           THEN [call EXCEPT !.at = "raised", !.err = negative_step.err]
                           ELSE Tested(call, step, negative_step.ok, call.start)))
         ELSE Bind(Plus(vector_class, point_class, call.running, call.step),
                LAMBDA running :
                  IF IsErr(running) THEN [call EXCEPT !.at = "raised", !.err = running.err]
                  ELSE Tested(call, call.step, call.negative_step, running))
    /\ UNCHANGED <<vector_class, point_class, converters, pre, ncalls, defaults>>

\* The numbers of the ranges, the ints and the 12-tone pitches and
\* intervals made of them
RangeNumbers == (0 - MaxRange)..MaxRange

RangeInts == {PyInt(n) : n \in RangeNumbers}

RangePitches ==
    {New(point_class, "MIDIPitch", 60 + n, f) : n \in RangeNumbers, f \in {"False", "True"}}

RangeIntervals ==
    {New(point_class, "MIDIPitchInterval", n, f) : n \in RangeNumbers, f \in {"False", "True"}}

InitRange ==
    /\ vector_class = ImportVectorClass
    /\ point_class = ImportPointClass
    /\ converters = ImportRegistry
    /\ call = NoCall
    /\ pre = [vector_class |-> vector_class, point_class |-> point_class,
              converters |-> converters]
    /\ ncalls = 0
    /\ defaults = TRUE

NextRange ==
    \/ /\ call = NoCall
       /\ \E start \in RangeInts, stop \in RangeInts, endpoint \in BOOLEAN :
            \E step \in {<<>>} \cup {<<s>> : s \in RangeInts} :
              Prange(start, stop, step, endpoint)
    \/ /\ call = NoCall
       /\ \E start \in RangePitches, stop \in RangePitches, endpoint \in BOOLEAN :
            \E step \in {<<>>} \cup {<<s>> : s \in RangeIntervals} :
              Prange(start, stop, step, endpoint)
    \/ Resume

SpecRange == InitRange /\ [][NextRange]_vars

\* Whoever iterates over the generator asks for the next value until the
\* generator ends
FairRange == InitRange /\ [][NextRange]_vars /\ WF_vars(Resume)

(***************************************************************************)
(* C23.  For ints, and for plain 12-tone pitches with a plain interval as  *)
(* step, with a step that is not zero and points from start to stop:       *)
(* prange(start, stop, step) yields the values of range(start, stop, step) *)
(* (step 1 when none is given); with endpoint=True it yields them and then *)
(* stop when stop - start is a multiple of the step, and just them         *)
(* otherwise.                                                              *)
(***************************************************************************)
\* The number the step stands for
C23_Step == IF call.given = <<>> THEN 1 ELSE call.given[1].value

\* range(a, b, s) of Python for s # 0
C23_Len(a, b, s) ==
    Cardinality({i \in 0..(2 * MaxRange) : IF s > 0 THEN a + i * s < b ELSE a + i * s > b})

C23_Range(a, b, s) == [i \in 1..C23_Len(a, b, s) |-> a + (i - 1) * s]

\* The generator of the claim: ints, or plain pitches and a plain interval
C23_Case ==
    /\ call.op = "prange"
    /\ ~call.start.is_class
    /\ ~call.stop.is_class
    /\ call.given # <<>> => ~call.given[1].is_class
    /\ C23_Step # 0
    /\ (C23_Step > 0 => call.start.value <= call.stop.value)
    /\ (C23_Step < 0 => call.start.value >= call.stop.value)

C23_Expected ==
    IF call.endpoint /\ (call.stop.value - call.start.value) % (IF C23_Step < 0 THEN 0 - C23_Step ELSE C23_Step) = 0
    THEN Append(C23_Range(call.start.value, call.stop.value, C23_Step), call.stop.value)
    ELSE C23_Range(call.start.value, call.stop.value, C23_Step)

\* The values of what was yielded
C23_Yielded == [i \in 1..Len(call.yielded) |-> call.yielded[i].value]

C23_PrangeIsRange ==
    C23_Case =>
        /\ call.at # "raised"
        /\ \A i \in 1..Len(call.yielded) : call.yielded[i].cls = call.start.cls
        \* what has been yielded so far is the beginning of the expected values
        /\ Len(call.yielded) <= Len(C23_Expected)
        /\ C23_Yielded = SubSeq(C23_Expected, 1, Len(call.yielded))
        \* and at the end it is all of them
        /\ call.at = "returned" => C23_Yielded = C23_Expected

\* prange(C4, C4 + 2, step 2, endpoint=True) has ended with C4 and C4 + 2.
C23_Witness ==
    /\ call.op = "prange"
    /\ call.at = "returned"
    /\ call.start = Obj("MIDIPitch", 60, FALSE)
    /\ call.stop = Obj("MIDIPitch", 62, FALSE)
    /\ call.given = <<Obj("MIDIPitchInterval", 2, FALSE)>>
    /\ call.endpoint
    /\ C23_Yielded = <<60, 62>>

(***************************************************************************)
(* C24.  prange comes to an end for every start and stop of one class and  *)
(* every step that is not zero, with and without the endpoint, with the    *)
(* unit step when none is given, and also when start and stop are pitch    *)
(* classes and the step is an interval class.                              *)
(***************************************************************************)
\* start, stop and the step are all plain or all classes
C24_Case ==
    /\ call.op = "prange"
    /\ call.stop.is_class = call.start.is_class
    /\ call.given # <<>> =>
           /\ call.given[1].value # 0
           /\ call.given[1].is_class = call.start.is_class

C24_Ended == call.op = "prange" /\ call.at \in {"returned", "raised"}

C24_Terminates == C24_Case ~> C24_Ended

\* Between plain pitches and for ints prange does come to an end.
C24_PlainCase ==
    /\ C24_Case
    /\ ~call.start.is_class
    /\ ~call.stop.is_class
    /\ call.given # <<>> => ~call.given[1].is_class

C24_PlainTerminates == C24_PlainCase ~> C24_Ended

(***************************************************************************)
(* C25.  No stored pipeline is empty.  A register call gives a pair a      *)
(* pipeline of length 1 only by installing its function for its own pair   *)
(* (from_type, to_type); a pipeline that the extension of the call adds    *)
(* to another pair has length 2 or more, and every other pipeline is as it *)
(* was before the call.  So a pipeline has length 1 exactly when a call    *)
(* for its own pair installed it.                                          *)
(***************************************************************************)
\* The pairs that have a pipeline in the registry conv
C25_Pairs(conv) == {p \in (DOMAIN conv) \X RegTypes : p[2] \in DOMAIN conv[p[1]]}

\* The pipeline of the pair p is new or is not what it was before the call
C25_Written(p) ==
    \/ p \notin C25_Pairs(pre.converters)
    \/ converters[p[1]][p[2]] # pre.converters[p[1]][p[2]]

\* The call installed its function for its own pair p
C25_Installed(p) ==
    /\ p = <<call.from_type, call.to_type>>
    /\ call.err = None
    /\ converters[p[1]][p[2]] = <<call.conv_func>>
    /\ OverwriteDecision(get_converter(pre.converters, call.from_type, call.to_type),
                         call.overwrite_explicit_converters,
                         call.overwrite_implicit_converter) = "set"

C25_LengthOneIsExplicit ==
    /\ \A p \in C25_Pairs(converters) : Len(converters[p[1]][p[2]]) >= 1
    /\ IsRegisterCall =>
         \A p \in C25_Pairs(converters) :
           /\ C25_Installed(p) => Len(converters[p[1]][p[2]]) = 1
           /\ (C25_Written(p) /\ ~C25_Installed(p)) =>
                 /\ Len(converters[p[1]][p[2]]) >= 2
                 /\ call.extend_implicit_converters
           /\ Len(converters[p[1]][p[2]]) = 1 =>
                 \/ C25_Installed(p)
                 \/ /\ p \in C25_Pairs(pre.converters)
                    /\ pre.converters[p[1]][p[2]] = converters[p[1]][p[2]]

\* A call installed its function for its pair and its extension added a
\* longer pipeline to another pair.
C25_Witness ==
    /\ IsRegisterCall
    /\ C25_Installed(<<call.from_type, call.to_type>>)
    /\ \E p \in C25_Pairs(converters) :
         /\ C25_Written(p)
         /\ ~C25_Installed(p)
         /\ Len(converters[p[1]][p[2]]) >= 2


(***************************************************************************)
(* C26.  A register call for (from_type, to_type) leaves the pipeline of   *)
(* every other pair that had one as it was; what it adds besides its own   *)
(* pair are pipelines from from_type or to to_type for pairs that had      *)
(* none.  So an implicit pipeline keeps its function list when the         *)
(* converter it was built from is overwritten.                             *)
(***************************************************************************)
C26_OtherPairsKept ==
    IsRegisterCall =>
      /\ \A p \in C25_Pairs(pre.converters) :
           /\ p \in C25_Pairs(converters)
           /\ p # <<call.from_type, call.to_type>> =>
                converters[p[1]][p[2]] = pre.converters[p[1]][p[2]]
      /\ \A p \in C25_Pairs(converters) \ C25_Pairs(pre.converters) :
           \/ p = <<call.from_type, call.to_type>>
           \/ /\ call.extend_implicit_converters
              /\ call.err = None
              /\ p[1] = call.from_type \/ p[2] = call.to_type

\* The function f occurs in the pipeline
C26_Holds(pipeline, f) == \E i \in 1..Len(pipeline) : pipeline[i] = f

\* A call replaced the converter of its pair by another function while an
\* implicit pipeline built from the old one is stored, and the call's
\* extension added a pipeline as well.
C26_Witness ==
    /\ IsRegisterCall
    /\ C25_Installed(<<call.from_type, call.to_type>>)
    /\ <<call.from_type, call.to_type>> \in C25_Pairs(pre.converters)
    /\ \E old \in {pre.converters[call.from_type][call.to_type]} :
         /\ Len(old) = 1
         /\ old[1] # call.conv_func
         /\ \E p \in C25_Pairs(pre.converters) :
              /\ p # <<call.from_type, call.to_type>>
              /\ Len(pre.converters[p[1]][p[2]]) >= 2
              /\ C26_Holds(pre.converters[p[1]][p[2]], old[1])
              /\ converters[p[1]][p[2]] = pre.converters[p[1]][p[2]]


(***************************************************************************)
(* C29.  Every function in a stored pipeline was installed as the explicit *)
(* pipeline of a pair by an accepted register call: a register call puts   *)
(* into the stored pipelines no function that was not there before, other  *)
(* than its own function when it installs it for its own pair.  A call     *)
(* whose function the overwrite policy rejects adds it to no pipeline.     *)
(***************************************************************************)
\* The function f occurs in a pipeline of the registry conv
C29_Stored(conv, f) ==
    \E p \in C25_Pairs(conv) : C26_Holds(conv[p[1]][p[2]], f)

\* The overwrite policy rejected the function of the call: the pair had a
\* pipeline and it was kept
C29_Rejected ==
    /\ IsRegisterCall
    /\ call.err = None
    /\ OverwriteDecision(get_converter(pre.converters, call.from_type, call.to_type),
                         call.overwrite_explicit_converters,
                         call.overwrite_implicit_converter) = "keep"

C29_OnlyAcceptedFunctions ==
    IsRegisterCall =>
      \A p \in C25_Pairs(converters) :
        \A i \in 1..Len(converters[p[1]][p[2]]) :
          \/ C29_Stored(pre.converters, converters[p[1]][p[2]][i])
          \/ /\ converters[p[1]][p[2]][i] = call.conv_func
             /\ C25_Installed(<<call.from_type, call.to_type>>)

\* What holds instead: a rejected function enters the registry only through
\* the extension, and a call that does not extend adds no function but the
\* one it installs.
C29_RejectedOnlyExtends ==
    (C29_Rejected /\ ~call.extend_implicit_converters) =>
        \A p \in C25_Pairs(converters) :
          \A i \in 1..Len(converters[p[1]][p[2]]) :
            C29_Stored(pre.converters, converters[p[1]][p[2]][i])


(***************************************************************************)
(* C27.  An interval without a direct pipeline to the target type is       *)
(* converted to naive + origin_difference, where naive is                  *)
(* self.to_pitch().convert_to(target pitch type).to_interval() and         *)
(* origin_difference is the converted source origin,                       *)
(* (self - self).to_pitch().convert_to(target pitch type), minus the       *)
(* target origin, (naive - naive).to_pitch().                              *)
(***************************************************************************)
\* convert_to was called on an interval for an interval type and the direct
\* conversion found no pipeline (line 563)
C27_Indirect ==
    /\ IsConvertCall
    /\ IsIntervalCls(call.self.cls)
    /\ IsIntervalCls(call.other_type)
    /\ \E direct \in {convert(converters, point_class, call.self, call.other_type)} :
         IsErr(direct) /\ direct.err = "NotImplementedError"

\* The pitch type of the target
C27_TargetPitch == PointClassOf(point_class, call.other_type)

\* conv(to_pitch(i)): the interval i as a pitch, converted to the target pitch type
C27_Converted(i) ==
    Then(to_pitch(point_class, i),
         LAMBDA p : Pitch_convert_to(converters, point_class, p, C27_TargetPitch))

C27_Naive ==
    Then(C27_Converted(call.self),
         LAMBDA q : to_interval(vector_class, point_class, q))

\* The zero interval of the type and flag of i
C27_Zero(i) == Sub(vector_class, point_class, i, i)

\* The converted source origin
C27_OriginFrom == Then(C27_Zero(call.self), LAMBDA z : C27_Converted(z))

\* The target origin
C27_OriginTo ==
    Then(Then(C27_Naive, LAMBDA n : C27_Zero(n)), LAMBDA z : to_pitch(point_class, z))

\* Every step of the route returns a value
C27_RouteWorks ==
    /\ C27_Indirect
    /\ PointClassOf(point_class, call.self.cls) # None
    /\ C27_TargetPitch # None
    /\ ~IsErr(C27_Naive)
    /\ ~IsErr(C27_OriginFrom)
    /\ ~IsErr(C27_OriginTo)

\* naive + (first - second): a TypeError when the sum is not of the target
\* type (lines 579-580), and made an interval class when self is one
C27_Moved(first, second) ==
    Then(Then(Sub(vector_class, point_class, first, second),
              LAMBDA origin_difference :
                Add(vector_class, point_class, C27_Naive, origin_difference)),
         LAMBDA out : IF ~IsInstance(out, call.other_type) THEN Raise("TypeError")
                      ELSE IF call.self.is_class THEN to_interval_class(point_class, out)
                      ELSE out)

C27_ConvertedMinusTarget ==
    C27_RouteWorks => call.result = C27_Moved(C27_OriginFrom, C27_OriginTo)

\* The difference is taken the other way round: the target origin minus the
\* converted source origin.  For an interval that is not an interval class
\* the value returned is the value of naive, plus the value of the target
\* origin, minus the value of the converted source origin.
C27_TargetMinusConverted ==
    C27_RouteWorks =>
      /\ call.result = C27_Moved(C27_OriginTo, C27_OriginFrom)
      /\ (~call.self.is_class /\ ~IsErr(call.result)) =>
           /\ IsInstance(call.result, call.other_type)
           /\ ~call.result.is_class
           /\ call.result.value
                = C27_Naive.value + C27_OriginTo.value - C27_OriginFrom.value

\* An interval was converted through a pitch converter that moves the
\* source origin, so that the two orders of the difference give two results.
C27_Witness ==
    /\ C27_RouteWorks
    /\ ~call.self.is_class
    /\ ~IsErr(call.result)
    /\ C27_OriginFrom.value # C27_OriginTo.value
    /\ call.result # C27_Moved(C27_OriginFrom, C27_OriginTo)


(***************************************************************************)
(* C28.  An interval that is converted through the pitch types, without a  *)
(* direct pipeline, goes to conv(to_pitch(i)) - conv(to_pitch(0)) taken as *)
(* an interval of the target type, where conv is the conversion to the     *)
(* target pitch type and 0 the zero interval i - i.  The zero interval     *)
(* goes to the zero interval of the target type, whatever the converter    *)
(* makes of the source origin.                                             *)
(***************************************************************************)
\* The indirect conversion returned an interval
C28_Converted == C27_RouteWorks /\ ~IsErr(call.result)

\* conv(to_pitch(i)) - conv(to_pitch(0))
C28_Difference ==
    Then(C27_Converted(call.self), LAMBDA q :
      Then(C27_OriginFrom, LAMBDA o : Sub(vector_class, point_class, q, o)))

C28_ZeroToZero ==
    C28_Converted =>
      /\ IsInstance(call.result, call.other_type)
      /\ call.result.is_class = call.self.is_class
      /\ ~IsErr(C28_Difference)
      /\ call.result.value = C28_Difference.value
      /\ call.self.value = 0 => call.result.value = 0

\* The zero interval was converted by a converter that does not keep the
\* origin: the converted source origin is not the target origin.
C28_Witness ==
    /\ C28_Converted
    /\ call.self.value = 0
    /\ call.self.cls # call.other_type
    /\ C27_OriginFrom.value # C27_OriginTo.value
    /\ call.result.value = 0


\* For an interval that is not an interval class the two statements hold.
C28_PlainZeroToZero ==
    (C28_Converted /\ ~call.self.is_class) =>
      /\ IsInstance(call.result, call.other_type)
      /\ ~call.result.is_class
      /\ ~IsErr(C28_Difference)
      /\ call.result.value = C28_Difference.value
      /\ call.self.value = 0 => call.result.value = 0


(***************************************************************************)
(* chordify (util.py lines 23-51).  A piece is a list of events; an event  *)
(* in a set is the object itself, here its position in the piece.  The     *)
(* times are integers.                                                     *)
(***************************************************************************)
\* Event(time, duration, data) (datatypes.py lines 886-891)
Event(time, duration, data) == [time |-> time, duration |-> duration, data |-> data]

\* The dictionary after the loop of lines 25-33: a key for the onset and for
\* the offset of each event, and at each key the events that start there
event_dict(piece) ==
    [t \in {piece[i].time : i \in 1..Len(piece)}
             \cup {piece[i].time + piece[i].duration : i \in 1..Len(piece)}
        |-> {i \in 1..Len(piece) : piece[i].time = t}]

\* sorted(..., key=lambda item: item[0]) of line 35: the keys in increasing order
RECURSIVE sorted(_)
sorted(keys) ==
    IF keys = {} THEN <<>>
    ELSE \* the least key first
         <<CHOOSE m \in keys : \A t \in keys : m <= t>>
            \o sorted(keys \ {CHOOSE m \in keys : \A t \in keys : m <= t})

\* Line 40: of the active events those that reach into the slot of the time
active_events_v1(piece, active, time) ==
    \* a plausible slip: an event that ends at the time is kept
    {event \in active : piece[event].time + piece[event].duration >= time}

active_events(piece, active, time) ==
    {event \in active : piece[event].time + piece[event].duration > time}

\* The loop of lines 38-44 from the k-th item of event_list on: the events of
\* each time slot, those that start there and those still active
RECURSIVE time_slots(_, _, _, _, _)
time_slots(piece, dict, times, k, active) ==
    IF k > Len(times) THEN <<>>
    ELSE <<dict[times[k]] \cup active_events(piece, active, times[k])>>
           \o time_slots(piece, dict, times, k + 1,
                         active_events(piece, active, times[k])
                            \cup (dict[times[k]] \cup active_events(piece, active, times[k])))

\* The list comprehension of lines 49-51 from the k-th pair on
RECURSIVE chordified(_, _, _, _, _)
chordified(piece, times, slots, k, duration_threshold) ==
    IF k >= Len(times) THEN <<>>
    ELSE (IF times[k + 1] - times[k] >= duration_threshold
          THEN <<Event(times[k], times[k + 1] - times[k],
                       {piece[e].data : e \in slots[k]})>>
          ELSE <<>>)
         \o chordified(piece, times, slots, k + 1, duration_threshold)

\* chordify(piece, duration_threshold): the list of events or an exception
chordify(piece, duration_threshold) ==
    \* event_list[-1] of an empty list (line 46)
    IF Len(piece) = 0 THEN Raise("IndexError")
    ELSE Bind(sorted(DOMAIN event_dict(piece)), LAMBDA times :
           Bind(time_slots(piece, event_dict(piece), times, 1, {}), LAMBDA slots :
             IF slots[Len(slots)] # {} THEN Raise("ValueError")
             ELSE [ok |-> chordified(piece, times, slots, 1, duration_threshold)]))

MaxEvents == 3

\* The events of the pieces: two onsets, durations from none to two units,
\* two data
PieceEvents ==
    {Event(time, duration, data) : time \in 0..1, duration \in 0..2, data \in {"a", "b"}}

Pieces == UNION {[1..n -> PieceEvents] : n \in 0..MaxEvents}

\* chordify(piece, duration_threshold)
Chordify(piece, duration_threshold) ==
    /\ call' = [op |-> "chordify", piece |-> piece,
                duration_threshold |-> duration_threshold,
                result |-> chordify(piece, duration_threshold), err |-> None]
    /\ UNCHANGED <<vector_class, point_class, converters, pre, ncalls, defaults>>

InitChord == InitRange

\* chordify reads its arguments only: a behaviour of the model makes one call.
NextChord ==
    /\ call = NoCall
    /\ \E piece \in Pieces, duration_threshold \in {0, 2} :
           Chordify(piece, duration_threshold)

SpecChord == InitChord /\ [][NextChord]_vars

(***************************************************************************)
(* C30.  chordify with threshold 0 on a piece that is not empty and whose  *)
(* events all have a positive duration raises nothing; the slots it        *)
(* returns are in strictly increasing order of time, one for each pair of  *)
(* consecutive distinct onset or offset times, each ends where the next    *)
(* begins, and the data of the slot at t is the set of the data of the     *)
(* events e with e.time <= t < e.time + e.duration.                        *)
(***************************************************************************)
\* The onset and offset times of the piece of the call
C30_Times ==
    {call.piece[i].time : i \in 1..Len(call.piece)}
       \cup {call.piece[i].time + call.piece[i].duration : i \in 1..Len(call.piece)}

C30_Case ==
    /\ call.op = "chordify"
    /\ call.duration_threshold = 0
    /\ Len(call.piece) > 0
    /\ \A i \in 1..Len(call.piece) : call.piece[i].duration > 0

\* The data of the events that sound at the time t
C30_Sounding(t) ==
    {call.piece[i].data : i \in {j \in 1..Len(call.piece) :
        /\ call.piece[j].time <= t
        /\ t < call.piece[j].time + call.piece[j].duration}}

C30_Chordified ==
    C30_Case =>
      /\ ~IsErr(call.result)
      /\ Len(call.result.ok) = Cardinality(C30_Times) - 1
      /\ \A k \in 1..Len(call.result.ok) :
           /\ call.result.ok[k].time \in C30_Times
           /\ call.result.ok[k].time + call.result.ok[k].duration \in C30_Times
           /\ call.result.ok[k].duration > 0
           /\ ~\E t \in C30_Times :
                 /\ call.result.ok[k].time < t
                 /\ t < call.result.ok[k].time + call.result.ok[k].duration
           /\ k < Len(call.result.ok) =>
                 /\ call.result.ok[k].time < call.result.ok[k + 1].time
                 /\ call.result.ok[k].time + call.result.ok[k].duration
                      = call.result.ok[k + 1].time
           /\ call.result.ok[k].data = C30_Sounding(call.result.ok[k].time)

\* A piece with an event that sounds through several slots, one of them
\* together with another event
C30_Witness ==
    /\ C30_Case
    /\ ~IsErr(call.result)
    /\ Len(call.result.ok) >= 3
    /\ \E k \in 1..Len(call.result.ok) : Cardinality(call.result.ok[k].data) = 2
    /\ \E i \in 1..Len(call.piece) :
         Cardinality({k \in 1..Len(call.result.ok) :
                        /\ call.piece[i].time <= call.result.ok[k].time
                        /\ call.result.ok[k].time
                             < call.piece[i].time + call.piece[i].duration}) >= 2

====
